---- MODULE Spec2Model ----
(***************************************************************************)
(* SearchMix: the index manager (addDocument, removeDocument, removeByTag, *)
(* clear, search) over the docs_fts table, with the filesystem and the     *)
(* asynchronous converters as its environment.                             *)
(*                                                                         *)
(* Strings that the code inspects character by character (paths, tags,     *)
(* the JSON text of the collection column, LIKE patterns) are sequences.   *)
(* A path is the sequence of its "/"-separated segments, so that           *)
(* "/d/a.md" is <<"", "d", "a.md">> and "buffer://u" is                    *)
(* <<"buffer:", "", u>>.                                                   *)
(***************************************************************************)
EXTENDS Integers, Sequences, FiniteSets, Bags, TLC

VARIABLES
  store,     \* the rows of docs_fts: a bag of records (the table has no key)
  fs,        \* the filesystem: the state of each file of the directory
  calls,     \* the addDocument calls suspended at an await
  nextUuid,  \* the number of virtual paths handed out by crypto.randomUUID
  envLeft,   \* filesystem changes the environment may still make
  opsLeft,   \* calls of addDocument, removeDocument, removeByTag, clear and search left
  faultsLeft,    \* how many INSERTs the storage engine may still reject
  last       \* what the most recent step did and returned (observation)

vars == <<store, fs, calls, nextUuid, envLeft, opsLeft, faultsLeft, last>>

---------------------------------------------------------------------------
(* Bounds of the model *)

MaxBuffers == 2
MaxCalls == 2
MaxEnv == 1
MaxOps == 3
MaxOpsFault == 2
MaxFaults == 1

(* Program constants *)

MinLangLen == 100
ToleranceFile == 1000
ToleranceDir == 1000
NullMtime == -1

---------------------------------------------------------------------------
(* The environment: one directory /d holding two files. *)

Cwd == <<"", "d">>
DirListing == <<"a.md", "b.epub">>
FileNames == {DirListing[i] : i \in DOMAIN DirListing}
Mtimes == {0, 500, 1500}

(* A Markdown text, reduced to what the index manager looks at: the terms  *)
(* a MATCH can find in it, the length of (body || markdown), and the       *)
(* answer franc gives for it.                                              *)
Und == <<"u", "n", "d">>
Spa == <<"s", "p", "a">>
Markdown ==
  << [terms |-> {"x"}, len |-> 99, franc |-> Spa],
     [terms |-> {"x", "y"}, len |-> 100, franc |-> Spa],
     [terms |-> {"y"}, len |-> 100, franc |-> Und] >>
FileContents == {1, 2}
BufferContents == {2, 3}

Queries == {"x", "y"}

TagA == <<"a">>
TagUpperA == <<"A">>
TagWild == <<"_">>
TagB == <<"b">>
(* The tags option of an add: an array of tags or one tag as a string. *)
NoTags == [isArray |-> TRUE, value |-> << >>]
AddTagOptions == {NoTags, [isArray |-> FALSE, value |-> TagA]}
FilterOptions == {<< >>, <<TagA>>, <<TagUpperA>>, <<TagWild>>, <<TagB, Spa>>}

Opts == [skipExisting : BOOLEAN, update : BOOLEAN, checkModified : BOOLEAN]

---------------------------------------------------------------------------
(* Paths *)

Ext(name) ==
  CASE name = "a.md" -> "md"
    [] name = "b.epub" -> "epub"
    [] OTHER -> ""

IsAbsolute(p) == Len(p) > 0 /\ p[1] = ""

KeepSegment(s) == s # "" /\ s # "."

(* path.resolve: an absolute path is normalised, a relative one is taken   *)
(* from the working directory; empty and "." segments disappear.           *)
Resolve(p) ==
  <<"">> \o SelectSeq(IF IsAbsolute(p) THEN p ELSE Cwd \o p, KeepSegment)

StartsWithBuffer(p) == Len(p) >= 3 /\ p[1] = "buffer:" /\ p[2] = ""

AbsolutePath(p) == IF StartsWithBuffer(p) THEN p ELSE Resolve(p)

(* The values crypto.randomUUID returns, in the order it returns them: the  *)
(* function never returns the same value twice.                            *)
Uuids == <<"u1", "u2", "u3", "u4">>
RandomUUID(n) == Uuids[n + 1]

(* `buffer://${uuid}` *)
VirtualPath(uuid) == <<"buffer:", "", uuid>>

FilePath(name) == Cwd \o <<name>>

(* getPathType *)
IsDirectory(target) == target = Cwd
IsFile(target) ==
  \E f \in FileNames : target = FilePath(f) /\ ~fs[f].broken
FileOf(target) == CHOOSE f \in FileNames : target = FilePath(f)

(* What a caller may pass as a path. *)
PathInputs ==
  { <<"a.md">>, <<".", "b.epub">>, <<"", "d">>, <<"nope.md">> }

---------------------------------------------------------------------------
(* Tags, the collection column and LIKE *)

(* _normalizeTags: nothing for a false value, a copy of an array, and an   *)
(* array of one for a string.                                             *)
NormalizeTags(tags) ==
  IF ~tags.isArray /\ tags.value = << >> THEN << >>
  ELSE IF tags.isArray THEN tags.value
  ELSE <<tags.value>>

NeedsEscape(c) == c = "\"" \/ c = "\\"

RECURSIVE EscapeFrom(_, _)
EscapeFrom(s, i) ==
  IF i > Len(s) THEN << >>
  ELSE (IF NeedsEscape(s[i]) THEN <<"\\", s[i]>> ELSE <<s[i]>>) \o EscapeFrom(s, i + 1)

JSONString(s) == <<"\"">> \o EscapeFrom(s, 1) \o <<"\"">>

RECURSIVE JSONItems(_, _)
JSONItems(tags, i) ==
  IF i > Len(tags) THEN << >>
  ELSE (IF i > 1 THEN <<",">> ELSE << >>) \o JSONString(tags[i]) \o JSONItems(tags, i + 1)

(* JSON.stringify of an array of strings *)
JSONStringify(tags) == <<"[">> \o JSONItems(tags, 1) \o <<"]">>

EmptyCollection == <<"[", "]">>

(* SQLite folds the case of ASCII letters in LIKE. *)
Lower(c) ==
  CASE c = "A" -> "a"
    [] c = "B" -> "b"
    [] OTHER -> c

RECURSIVE LikeAt(_, _, _, _)
LikeAt(text, pat, i, j) ==
  IF j > Len(pat) THEN i > Len(text)
  ELSE IF pat[j] = "%" THEN \E k \in i..(Len(text) + 1) : LikeAt(text, pat, k, j + 1)
  ELSE IF i > Len(text) THEN FALSE
  ELSE /\ (pat[j] = "_" \/ Lower(pat[j]) = Lower(text[i]))
       /\ LikeAt(text, pat, i + 1, j + 1)

(* text LIKE pat: % is any run of characters, _ any one character *)
Like(text, pat) == LikeAt(text, pat, 1, 1)

(* `%"${tag}"%` *)
TagPattern(tag) == <<"%", "\"">> \o tag \o <<"\"", "%">>

Collection(r) == JSONStringify(r.tags)

HasTag(tags, t) == \E i \in DOMAIN tags : tags[i] = t

---------------------------------------------------------------------------
(* The table *)

RowsAt(st, p) == {r \in DOMAIN st : r.path = p}

RECURSIVE SumCopies(_, _)
SumCopies(st, rows) ==
  IF rows = {} THEN 0
  ELSE LET r == CHOOSE x \in rows : TRUE
       IN st[r] + SumCopies(st, rows \ {r})

CountAt(st, p) == SumCopies(st, RowsAt(st, p))

TotalDocs(st) == SumCopies(st, DOMAIN st)

(* DELETE FROM docs_fts WHERE path = ? *)
(* A DELETE that takes every row. *)
DeletePathAll(st, p) == EmptyBag

DeletePath(st, p) == [r \in {x \in DOMAIN st : x.path # p} |-> st[r]]

(* DELETE FROM docs_fts WHERE collection LIKE ? *)
DeleteLike(st, pat) ==
  [r \in {x \in DOMAIN st : ~Like(Collection(x), pat)} |-> st[r]]

InsertRow(st, r) == st (+) SetToBag({r})

(* hasDocument: the number of rows with that path *)
HasDocument(st, p) == CountAt(st, AbsolutePath(p)) > 0

(* get: the row stored under the path, the empty set standing for null *)
Get(st, p) == RowsAt(st, AbsolutePath(p))

(* _getDocumentMtime: the mtime of the row, null when there is no row *)
GetDocumentMtime(st, p) ==
  LET rows == RowsAt(st, AbsolutePath(p))
  IN IF rows = {} THEN NullMtime ELSE (CHOOSE r \in rows : TRUE).mtime

---------------------------------------------------------------------------
(* Indexing *)

Abs(x) == IF x < 0 THEN -x ELSE x

(* The truth value JavaScript gives a stored mtime: null and 0 are false. *)
Truthy(m) == m # NullMtime /\ m # 0

(* _detectLanguage: the empty sequence stands for null *)
DetectLanguage(content) ==
  IF Markdown[content].len < MinLangLen THEN << >>
  ELSE IF Markdown[content].franc = Und THEN << >>
  ELSE Markdown[content].franc

(* The row _indexMarkdown builds: the language found is appended to the tags. *)
MakeRecord(path, content, tags, mtime) ==
  LET lang == DetectLanguage(content)
  IN [path |-> path,
      content |-> content,
      tags |-> IF lang # << >> /\ ~HasTag(tags, lang) THEN Append(tags, lang) ELSE tags,
      mtime |-> mtime]

(* _indexMarkdown that keeps the tags of the row it replaces. *)
IndexMarkdownKeepTags(st, path, content, tags, mtime, insertOk) ==
  LET old == RowsAt(st, path)
      kept == IF old = {} THEN tags ELSE (CHOOSE r \in old : TRUE).tags
  IN IF insertOk THEN InsertRow(DeletePath(st, path), MakeRecord(path, content, kept, mtime))
     ELSE DeletePath(st, path)

(* _indexMarkdown without its DELETE. *)
IndexMarkdownNoDelete(st, path, content, tags, mtime, insertOk) ==
  IF insertOk THEN InsertRow(st, MakeRecord(path, content, tags, mtime)) ELSE st

(* _indexMarkdown: DELETE the rows of the path if there is one, then INSERT. *)
(* insertOk is whether the storage engine accepts the INSERT.               *)
IndexMarkdown(st, path, content, tags, mtime, insertOk) ==
  LET existing == RowsAt(st, path) # {}
      deleted == IF existing THEN DeletePath(st, path) ELSE st
  IN IF insertOk THEN InsertRow(deleted, MakeRecord(path, content, tags, mtime))
     ELSE deleted

(* The number of DELETE and INSERT statements _indexMarkdown runs. *)
IndexWrites(st, path) == IF RowsAt(st, path) # {} THEN 2 ELSE 1

(* addDocument, single file: whether the file goes to _indexFile. *)
FileDecision(has, o, stored, current) ==
  IF o.skipExisting /\ ~o.update /\ ~o.checkModified /\ has THEN FALSE
  ELSE IF /\ o.checkModified /\ has
          /\ Truthy(stored) /\ Abs(current - stored) < ToleranceFile
          /\ o.skipExisting /\ ~o.update
       THEN FALSE
  ELSE TRUE

(* a mutant of DirDecision: a difference of exactly the tolerance is no change *)
DirDecisionAboveTolerance(has, o, stored, current) ==
  IF ~has THEN TRUE
  ELSE IF o.update \/ ~o.skipExisting THEN TRUE
  ELSE IF o.checkModified /\ has
       THEN ~Truthy(stored) \/ Abs(current - stored) > ToleranceDir
  ELSE FALSE

(* _indexDirectory: whether a scanned file is pushed on filesToIndex. *)
DirDecision(has, o, stored, current) ==
  IF ~has THEN TRUE
  ELSE IF o.update \/ ~o.skipExisting THEN TRUE
  ELSE IF o.checkModified /\ has
       THEN ~Truthy(stored) \/ Abs(current - stored) >= ToleranceDir
  ELSE FALSE

(* _indexDirectory: whether the loop calls fs.statSync on the file. *)
DirStats(has, o) == has /\ ~(o.update \/ ~o.skipExisting) /\ o.checkModified

---------------------------------------------------------------------------
(* State *)

(* A call that is not suspended. The fields from cmNoUpd on are history:  *)
(* whether the call asked for checkModified without update, whether its   *)
(* file was left alone since the call started, the add that resolved just *)
(* before it started, whether another call indexed its file meanwhile,    *)
(* and the files of a directory it still has to index.                    *)
IdleCall ==
  [pc |-> "idle", kind |-> "none", cur |-> "", tags |-> << >>, mtime |-> NullMtime,
   queue |-> << >>,
   cmNoUpd |-> FALSE, stable |-> TRUE, prev |-> << >>, overlapped |-> FALSE, want |-> {}]

(* The observation of a step that is no step of an add.                   *)
(*   added    the path, when the step resolved an add of one file that    *)
(*            indexed the file or skipped it by decision                  *)
(*   cmNoUpd  that add asked for checkModified without update             *)
(*   stable   the file was not changed while that add was running         *)
(*   prev     the add that had resolved just before that add was called   *)
(*   overlapped  another call indexed the same file while that add ran    *)
(*   outcome  "resolved", "rejected" or "pending" for a step of an add    *)
(*   wrote    the DELETE and INSERT statements the step ran               *)
(*   picked   the files the step decided to index                        *)
(*   want     for an add of a directory that resolved: the files that     *)
(*            needed indexing and met no failure of their own             *)
(*   total    totalCount of a search                                      *)
(*   warned   the file whose conversion failed in the step, which the     *)
(*            catch of _indexFile reports with console.warn               *)
NoLast ==
  [added |-> << >>, cmNoUpd |-> FALSE, stable |-> FALSE, prev |-> << >>,
   overlapped |-> FALSE, outcome |-> "none",
   wrote |-> 0, picked |-> {}, want |-> {}, total |-> 0, warned |-> << >>]

Slots == 1..MaxCalls
HasFree == \E c \in Slots : calls[c].pc = "idle"
FreeSlot == CHOOSE c \in Slots : calls[c].pc = "idle" /\ \A d \in 1..(c - 1) : calls[d].pc # "idle"

(* An INSERT fails only while the storage has failures left to give; a    *)
(* step that runs no INSERT is not offered one.                           *)
InsertOutcomes == IF faultsLeft > 0 THEN BOOLEAN ELSE {TRUE}
Fault(insertOk, attempt) ==
  /\ insertOk \/ attempt
  /\ faultsLeft' = IF insertOk THEN faultsLeft ELSE faultsLeft - 1

InitWith(ops, faults) ==
  /\ store = EmptyBag
  /\ fs = [f \in FileNames |-> [mtime |-> 500, content |-> 1, broken |-> FALSE, convOk |-> TRUE]]
  /\ calls = [c \in Slots |-> IdleCall]
  /\ nextUuid = 0
  /\ envLeft = MaxEnv
  /\ opsLeft = ops
  /\ faultsLeft = faults
  /\ last = NoLast

Init == InitWith(MaxOps, 0)

InitFault == InitWith(MaxOpsFault, MaxFaults)

CmNoUpd(o) == o.checkModified /\ ~o.update

(* A removal ends what the suspended calls are owed. *)
Forget(cl) == [cl EXCEPT !.prev = << >>, !.want = {}, !.overlapped = FALSE]

---------------------------------------------------------------------------
(* addDocument *)

(* A virtual path that is the same for every buffer. *)
NewVirtualPathFixed(n) == VirtualPath(RandomUUID(0))

NewVirtualPath(n) == VirtualPath(RandomUUID(n))

(* addDocument(buffer): a fresh virtual path, indexed at once, no mtime. *)
AddBuffer(content, tags, insertOk) ==
  LET p == NewVirtualPath(nextUuid)
  IN /\ nextUuid < MaxBuffers
     /\ opsLeft > 0
     /\ store' = IndexMarkdown(store, p, content, NormalizeTags(tags), NullMtime, insertOk)
     /\ nextUuid' = nextUuid + 1
     /\ opsLeft' = opsLeft - 1
     /\ last' = [NoLast EXCEPT !.outcome = IF insertOk THEN "resolved" ELSE "rejected",
                               !.wrote = IndexWrites(store, p)]
     /\ Fault(insertOk, TRUE)
     /\ UNCHANGED <<fs, calls, envLeft>>

FileNeeds(target, o) ==
  FileDecision(HasDocument(store, target), o, GetDocumentMtime(store, target),
               fs[FileOf(target)].mtime)

(* addDocument(file): getPathType, the decision, and _indexFile up to its *)
(* first await. A Markdown file is read and indexed in the same step; an  *)
(* EPUB is handed to its converter and the call is suspended.             *)
AddFile(inp, tags, o, insertOk) ==
  LET target == Resolve(inp)
  IN
  /\ ~IsDirectory(target)
  /\ opsLeft > 0
  /\ opsLeft' = opsLeft - 1
  /\ IF ~IsFile(target)
     THEN /\ last' = [NoLast EXCEPT !.outcome = "rejected"]
          /\ UNCHANGED <<store, calls>>
     ELSE
       LET f == FileOf(target)
           current == fs[f].mtime
           need == FileNeeds(target, o)
           done == [NoLast EXCEPT !.added = target, !.cmNoUpd = CmNoUpd(o), !.stable = TRUE,
                                  !.prev = last.added, !.outcome = "resolved"]
       IN
       IF ~need
       THEN /\ last' = done
            /\ UNCHANGED <<store, calls>>
       ELSE IF Ext(f) = "md"
       THEN /\ store' = IndexMarkdown(store, target, fs[f].content, NormalizeTags(tags), current, insertOk)
            /\ last' = IF insertOk
                       THEN [done EXCEPT !.wrote = IndexWrites(store, target), !.picked = {f}]
                       ELSE [NoLast EXCEPT !.outcome = "rejected",
                                           !.wrote = IndexWrites(store, target), !.picked = {f}]
            /\ UNCHANGED calls
       ELSE /\ HasFree
            /\ calls' = [calls EXCEPT ![FreeSlot] =
                   [IdleCall EXCEPT !.pc = "conv", !.kind = "file", !.cur = f,
                                    !.tags = NormalizeTags(tags), !.mtime = current,
                                    !.cmNoUpd = CmNoUpd(o), !.prev = last.added]]
            /\ last' = [NoLast EXCEPT !.outcome = "pending", !.picked = {f}]
            /\ UNCHANGED store
  /\ Fault(insertOk, IsFile(target) /\ Ext(FileOf(target)) = "md" /\ FileNeeds(target, o))
  /\ UNCHANGED <<fs, nextUuid, envLeft>>

(* One turn of the loop over filesToIndex: _indexFile on the head of the  *)
(* queue up to its await. An error of a Markdown file is caught there.    *)
DirStep(c, cl, insertOk, obs) ==
  LET f == Head(cl.queue)
      target == FilePath(f)
      rest == Tail(cl.queue)
      mtime == IF fs[f].broken THEN NullMtime ELSE fs[f].mtime
  IN IF Ext(f) = "md"
     THEN IF fs[f].broken
          THEN /\ store' = store
               /\ calls' = [calls EXCEPT ![c] =
                      [cl EXCEPT !.pc = "dirloop", !.queue = rest, !.want = @ \ {f}]]
               /\ last' = obs
               /\ Fault(insertOk, FALSE)
          ELSE /\ store' = IndexMarkdown(store, target, fs[f].content, cl.tags, mtime, insertOk)
               /\ calls' = [calls EXCEPT ![c] =
                      [cl EXCEPT !.pc = "dirloop", !.queue = rest,
                                 !.want = IF insertOk THEN @ ELSE @ \ {f}]]
               /\ last' = [obs EXCEPT !.wrote = IndexWrites(store, target)]
               /\ Fault(insertOk, TRUE)
     ELSE /\ store' = store
          /\ calls' = [calls EXCEPT ![c] =
                 [cl EXCEPT !.pc = "conv", !.cur = f, !.mtime = mtime, !.queue = rest]]
          /\ last' = obs
          /\ Fault(insertOk, FALSE)

(* addDocument(directory): the scan, the loop that fills filesToIndex     *)
(* (one throwing statSync ends the whole call in the outer catch), and    *)
(* the first turn of the indexing loop.                                   *)
AddDir(inp, tags, o, insertOk) ==
  LET target == Resolve(inp)
      Has(f) == HasDocument(store, FilePath(f))
      Stored(f) == GetDocumentMtime(store, FilePath(f))
      Needs(f) == DirDecision(Has(f), o, Stored(f), fs[f].mtime)
      Throws(f) == DirStats(Has(f), o) /\ fs[f].broken
      thrown == {i \in DOMAIN DirListing : Throws(DirListing[i])}
      reached == {i \in DOMAIN DirListing : \A j \in thrown : i < j}
      filesToIndex == SelectSeq(DirListing, Needs)
      want == {f \in FileNames : ~fs[f].broken /\ Needs(f)}
      obs == [NoLast EXCEPT !.outcome = "pending",
                            !.picked = {DirListing[i] : i \in {j \in reached : Needs(DirListing[j])}}]
  IN
  /\ IsDirectory(target)
  /\ HasFree
  /\ opsLeft > 0
  /\ opsLeft' = opsLeft - 1
  /\ IF thrown # {} \/ filesToIndex = << >>
     THEN /\ last' = [obs EXCEPT !.outcome = "resolved", !.want = want]
          /\ Fault(insertOk, FALSE)
          /\ UNCHANGED <<store, calls>>
     ELSE DirStep(FreeSlot,
                  [IdleCall EXCEPT !.kind = "dir", !.tags = NormalizeTags(tags),
                                   !.queue = filesToIndex, !.want = want],
                  insertOk, obs)
  /\ UNCHANGED <<fs, nextUuid, envLeft>>

(* The loop over filesToIndex resumes after an await. *)
DirNext(c, insertOk) ==
  LET cl == calls[c]
  IN
  /\ cl.pc = "dirloop"
  /\ IF cl.queue = << >>
     THEN /\ calls' = [calls EXCEPT ![c] = IdleCall]
          /\ last' = [NoLast EXCEPT !.outcome = "resolved", !.want = cl.want]
          /\ Fault(insertOk, FALSE)
          /\ UNCHANGED store
     ELSE DirStep(c, cl, insertOk, [NoLast EXCEPT !.outcome = "pending"])
  /\ UNCHANGED <<fs, nextUuid, envLeft, opsLeft>>

(* a mutant of ConvertFinish: the row of the file is deleted before the  *)
(* conversion, so a failure leaves the path without its record           *)
ConvertFinishDeletesFirst(c, insertOk) ==
  LET cl == calls[c]
      f == cl.cur
      target == FilePath(f)
      good == ~fs[f].broken /\ fs[f].convOk
      written == good /\ insertOk
      Peer(d) == d # c /\ calls[d].pc = "conv" /\ calls[d].cur = cl.cur
      after == IF cl.kind = "file" THEN IdleCall
               ELSE [cl EXCEPT !.pc = "dirloop", !.cur = "", !.mtime = NullMtime,
                               !.overlapped = FALSE,
                               !.want = IF written THEN @ ELSE @ \ {cl.cur}]
  IN
  /\ cl.pc = "conv"
  /\ store' = IF good THEN IndexMarkdown(store, target, fs[f].content, cl.tags, cl.mtime, insertOk)
              ELSE DeletePath(store, target)
  /\ calls' = [d \in Slots |->
         IF d = c THEN after
         ELSE IF Peer(d) /\ written THEN [calls[d] EXCEPT !.overlapped = TRUE]
         ELSE calls[d]]
  /\ last' = [NoLast EXCEPT
                !.added = IF cl.kind = "file" /\ written THEN target ELSE << >>,
                !.cmNoUpd = cl.kind = "file" /\ written /\ cl.cmNoUpd,
                !.stable = cl.kind = "file" /\ written /\ cl.stable,
                !.prev = IF cl.kind = "file" /\ written THEN cl.prev ELSE << >>,
                !.overlapped = cl.overlapped,
                !.outcome = IF cl.kind = "file" THEN "resolved" ELSE "pending",
                !.wrote = IF good THEN IndexWrites(store, target) ELSE 0,
                !.warned = IF good THEN << >> ELSE target]
  /\ Fault(insertOk, good)
  /\ UNCHANGED <<fs, nextUuid, envLeft, opsLeft>>

(* The converter reads the file and the await on it returns: on Markdown, *)
(* _indexMarkdown with the mtime read before the conversion; on a failure *)
(* of either, the catch that only warns.                                  *)
ConvertFinish(c, insertOk) ==
  LET cl == calls[c]
      f == cl.cur
      target == FilePath(f)
      good == ~fs[f].broken /\ fs[f].convOk
      written == good /\ insertOk
      Peer(d) == d # c /\ calls[d].pc = "conv" /\ calls[d].cur = cl.cur
      after == IF cl.kind = "file" THEN IdleCall
               ELSE [cl EXCEPT !.pc = "dirloop", !.cur = "", !.mtime = NullMtime,
                               !.overlapped = FALSE,
                               !.want = IF written THEN @ ELSE @ \ {cl.cur}]
  IN
  /\ cl.pc = "conv"
  /\ store' = IF good THEN IndexMarkdown(store, target, fs[f].content, cl.tags, cl.mtime, insertOk)
              ELSE store
  /\ calls' = [d \in Slots |->
         IF d = c THEN after
         ELSE IF Peer(d) /\ written THEN [calls[d] EXCEPT !.overlapped = TRUE]
         ELSE calls[d]]
  /\ last' = [NoLast EXCEPT
                !.added = IF cl.kind = "file" /\ written THEN target ELSE << >>,
                !.cmNoUpd = cl.kind = "file" /\ written /\ cl.cmNoUpd,
                !.stable = cl.kind = "file" /\ written /\ cl.stable,
                !.prev = IF cl.kind = "file" /\ written THEN cl.prev ELSE << >>,
                !.overlapped = cl.overlapped,
                !.outcome = IF cl.kind = "file" THEN "resolved" ELSE "pending",
                !.wrote = IF good THEN IndexWrites(store, target) ELSE 0,
                !.warned = IF good THEN << >> ELSE target]
  /\ Fault(insertOk, good)
  /\ UNCHANGED <<fs, nextUuid, envLeft, opsLeft>>

---------------------------------------------------------------------------
(* Removal *)

RemoveInputs == PathInputs \cup {VirtualPath(Uuids[1])}
RemoveTags == {TagA, Spa}

ForgetAll == [c \in Slots |-> Forget(calls[c])]

RemoveDocument(inp) ==
  /\ opsLeft > 0
  /\ opsLeft' = opsLeft - 1
  /\ store' = DeletePath(store, AbsolutePath(inp))
  /\ calls' = ForgetAll
  /\ last' = NoLast
  /\ UNCHANGED <<fs, nextUuid, envLeft, faultsLeft>>

RemoveByTag(tag) ==
  /\ opsLeft > 0
  /\ opsLeft' = opsLeft - 1
  /\ store' = DeleteLike(store, TagPattern(tag))
  /\ calls' = ForgetAll
  /\ last' = NoLast
  /\ UNCHANGED <<fs, nextUuid, envLeft, faultsLeft>>

Clear ==
  /\ opsLeft > 0
  /\ opsLeft' = opsLeft - 1
  /\ store' = EmptyBag
  /\ calls' = ForgetAll
  /\ last' = NoLast
  /\ UNCHANGED <<fs, nextUuid, envLeft, faultsLeft>>

---------------------------------------------------------------------------
(* search *)

(* docs_fts MATCH ?: the row's indexed text holds the term *)
Matches(r, q) == q \in Markdown[r.content].terms

(* AND (collection = '[]' OR collection LIKE ? OR ...), added to the      *)
(* query when filter tags are given                                       *)
TagCondition(r, filterTags) ==
  \/ Collection(r) = EmptyCollection
  \/ \E i \in DOMAIN filterTags : Like(Collection(r), TagPattern(filterTags[i]))

Selected(st, q, filterTags) ==
  {r \in DOMAIN st : Matches(r, q) /\ (Len(filterTags) > 0 => TagCondition(r, filterTags))}

TotalCount(st, q, filterTags) == SumCopies(st, Selected(st, q, filterTags))

Search(q, filterTags) ==
  /\ opsLeft > 0
  /\ opsLeft' = opsLeft - 1
  /\ last' = [NoLast EXCEPT !.total = TotalCount(store, q, filterTags)]
  /\ UNCHANGED <<store, fs, calls, nextUuid, envLeft, faultsLeft>>

---------------------------------------------------------------------------
(* The environment *)

Disturb(f) ==
  [c \in Slots |-> IF calls[c].cur = f THEN [calls[c] EXCEPT !.stable = FALSE] ELSE calls[c]]

EnvStep(f, new) ==
  /\ envLeft > 0
  /\ new # fs[f]
  /\ fs' = [fs EXCEPT ![f] = new]
  /\ envLeft' = envLeft - 1
  /\ calls' = Disturb(f)
  /\ last' = NoLast
  /\ UNCHANGED <<store, nextUuid, opsLeft, faultsLeft>>

OtherContent(content) == CHOOSE other \in FileContents : other # content

(* The file is written: other bytes and another mtime. *)
EnvWrite(f, mtime) ==
  /\ mtime # fs[f].mtime
  /\ EnvStep(f, [fs[f] EXCEPT !.mtime = mtime, !.content = OtherContent(@)])

(* The file stops or starts answering stat and read (a link whose target  *)
(* is removed or put back).                                               *)
EnvBreak(f) == EnvStep(f, [fs[f] EXCEPT !.broken = ~@])

(* The bytes of a convertible file become, or stop being, something its   *)
(* converter rejects.                                                     *)
EnvCorrupt(f) == Ext(f) # "md" /\ EnvStep(f, [fs[f] EXCEPT !.convOk = ~@])

---------------------------------------------------------------------------

Next ==
  \/ \E content \in BufferContents, tags \in AddTagOptions, ok \in InsertOutcomes :
        AddBuffer(content, tags, ok)
  \/ \E inp \in PathInputs, tags \in AddTagOptions, o \in Opts, ok \in InsertOutcomes :
        AddFile(inp, tags, o, ok)
  \/ \E inp \in PathInputs, tags \in AddTagOptions, o \in Opts, ok \in InsertOutcomes :
        AddDir(inp, tags, o, ok)
  \/ \E c \in Slots, ok \in InsertOutcomes : DirNext(c, ok)
  \/ \E c \in Slots, ok \in InsertOutcomes : ConvertFinish(c, ok)
  \/ \E inp \in RemoveInputs : RemoveDocument(inp)
  \/ \E tag \in RemoveTags : RemoveByTag(tag)
  \/ Clear
  \/ \E q \in Queries, ft \in FilterOptions : Search(q, ft)
  \/ \E f \in FileNames, mtime \in Mtimes : EnvWrite(f, mtime)
  \/ \E f \in FileNames : EnvBreak(f)
  \/ \E f \in FileNames : EnvCorrupt(f)

Spec == Init /\ [][Next]_vars

(* The same program over a storage engine that may reject an INSERT. *)
SpecFault == InitFault /\ [][Next]_vars

---------------------------------------------------------------------------
(* Document identity *)

Paths == {r.path : r \in DOMAIN store}

---------------------------------------------------------------------------
(* Incremental indexing *)

\* C2: when addDocument is called twice for the same file with
\* checkModified and without update (skipExisting left at its default), the
\* first call has resolved after indexing the file or deciding to skip it,
\* and the file was not touched from the start of the first call on, the
\* second call decides to index nothing, runs no DELETE and no INSERT, and
\* leaves the store as it was.
SecondAddWritesNothing ==
  [][\A inp \in PathInputs, tags \in AddTagOptions, o \in Opts :
       (/\ last.added = Resolve(inp) /\ last.cmNoUpd /\ last.stable
        /\ CmNoUpd(o) /\ o.skipExisting
        /\ AddFile(inp, tags, o, TRUE))
       => (last'.picked = {} /\ last'.wrote = 0 /\ store' = store)]_vars

(* The stored and the current mtime differ by strictly more than 1000 ms, *)
(* or no mtime is stored.                                                 *)
BeyondTolerance(stored, current) == stored = NullMtime \/ Abs(current - stored) > 1000

SmartOpts(o) == o.skipExisting /\ ~o.update /\ o.checkModified

\* C3: for a file that is in the index, with skipExisting, without update
\* and with checkModified, an add decides to index the file exactly when no
\* mtime is stored or the stored mtime differs from the current one by
\* strictly more than 1000 ms, both when the file is added alone and when a
\* directory add finds it (all the stats of that call succeeding).
ReindexIffBeyondTolerance ==
  [][\A inp \in PathInputs, tags \in AddTagOptions, o \in Opts :
       SmartOpts(o) =>
         /\ (AddFile(inp, tags, o, TRUE) /\ IsFile(Resolve(inp)) /\ HasDocument(store, Resolve(inp)))
              => (FileOf(Resolve(inp)) \in last'.picked
                   <=> BeyondTolerance(GetDocumentMtime(store, Resolve(inp)),
                                       fs[FileOf(Resolve(inp))].mtime))
         /\ (AddDir(inp, tags, o, TRUE) /\ \A g \in FileNames : ~fs[g].broken)
              => \A f \in FileNames :
                   HasDocument(store, FilePath(f))
                   => (f \in last'.picked
                        <=> BeyondTolerance(GetDocumentMtime(store, FilePath(f)), fs[f].mtime))]_vars

---------------------------------------------------------------------------
(* Concurrent and sequential adds *)

Converts(f) == ~fs[f].broken /\ fs[f].convOk

\* C4: when two adds of the same file are suspended in their conversions at
\* the same time, each one that comes back with Markdown leaves at the path
\* exactly one row, the complete record of that call (its own tags, the
\* mtime it read, the Markdown it converted), and one whose conversion
\* fails leaves the store as it is; so once the other call has written and
\* this one is done the path holds one complete record of one of the two.
ConcurrentAddsLeaveOneCompleteRecord ==
  [][\A c \in Slots :
       LET cl == calls[c]
           f == cl.cur
           p == FilePath(f)
           own == MakeRecord(p, fs[f].content, cl.tags, cl.mtime)
           concurrent == cl.overlapped \/ \E d \in Slots \ {c} : calls[d].pc = "conv" /\ calls[d].cur = f
       IN (ConvertFinish(c, TRUE) /\ concurrent)
          => /\ Converts(f) => RowsAt(store', p) = {own} /\ CountAt(store', p) = 1
             /\ ~Converts(f) => store' = store
             /\ cl.overlapped => CountAt(store', p) = 1]_vars

\* The second of two concurrent adds of one file has just replaced the
\* record the first one wrote while it was suspended.
SecondOfTwoFinished ==
  /\ last.overlapped
  /\ last.wrote = 2
  /\ CountAt(store, FilePath("b.epub")) = 1

Visible(p) ==
  /\ HasDocument(store, p)
  /\ Get(store, p) # {}
  /\ \A r \in Get(store, p) : \A q \in Markdown[r.content].terms : r \in Selected(store, q, << >>)

---------------------------------------------------------------------------
(* Failures *)

AddStep ==
  \/ \E inp \in PathInputs, tags \in AddTagOptions, o \in Opts, ok \in BOOLEAN :
        AddFile(inp, tags, o, ok) \/ AddDir(inp, tags, o, ok)
  \/ \E c \in Slots, ok \in BOOLEAN : DirNext(c, ok) \/ ConvertFinish(c, ok)

\* C6: re-indexing a path is atomic when the storage fails: no step of an
\* add takes a path that has a record to having none, so when the INSERT
\* fails the old record is still there.
ReindexKeepsRecord ==
  [][AddStep => \A p \in Paths : CountAt(store', p) >= 1]_vars

\* C7: when an add of a directory resolves, every file of the directory
\* that needed indexing and met no failure of its own (unreadable, failed
\* conversion, failing stat) is in the index.
DirectoryAddIndexesTheRest ==
  last.outcome = "resolved" => \A f \in last.want : HasDocument(store, FilePath(f))

---------------------------------------------------------------------------
(* Buffers *)

BufferRows(st) == {r \in DOMAIN st : StartsWithBuffer(r.path)}

\* C8: every add of a buffer puts exactly one record under a path that
\* starts with buffer:// and had no record, changes no other record, so
\* that the number of documents grows by one, and the path is the path of
\* no file.
BufferAddInsertsOneNewRecord ==
  [][\A content \in BufferContents, tags \in AddTagOptions :
       AddBuffer(content, tags, TRUE)
       => /\ TotalDocs(store') = TotalDocs(store) + 1
          /\ \A r \in DOMAIN store : r \in DOMAIN store' /\ store'[r] = store[r]
          /\ \E r \in BufferRows(store') :
               /\ CountAt(store, r.path) = 0
               /\ CountAt(store', r.path) = 1
               /\ r.content = content
               /\ \A inp \in PathInputs : Resolve(inp) # r.path]_vars

\* Two buffers with the same bytes and tags are in the store, each under
\* its own path.
SameBytesTwice ==
  \E r1, r2 \in BufferRows(store) :
    r1.path # r2.path /\ r1.content = r2.content /\ r1.tags = r2.tags

---------------------------------------------------------------------------
(* Tag filter *)

SharesTag(r, filterTags) ==
  \E i \in DOMAIN r.tags, j \in DOMAIN filterTags : r.tags[i] = filterTags[j]

\* C9: the totalCount of a search with a tag filter is the number of
\* records that match the query and whose stored tags are empty or hold one
\* of the filter tags as an equal string.
TagFilterIsExact ==
  [][\A q \in Queries, filterTags \in FilterOptions :
       (Search(q, filterTags) /\ Len(filterTags) > 0)
       => last'.total =
            SumCopies(store, {r \in DOMAIN store :
                                Matches(r, q) /\ (r.tags = << >> \/ SharesTag(r, filterTags))})]_vars

\* C10: a document added with no tags is selected, right after the add, by
\* every search with a tag filter whose query it matches.
UntaggedIsGlobal ==
  [][\A content \in BufferContents :
       AddBuffer(content, NoTags, TRUE)
       => \A r \in BufferRows(store') \ BufferRows(store) :
            \A q \in Queries, filterTags \in FilterOptions :
              Matches(r, q) => r \in Selected(store', q, filterTags)]_vars

---------------------------------------------------------------------------
(* search: ranking and the minimum score *)

(* CREATE VIRTUAL TABLE docs_fts USING fts5(...): the columns in order *)
Columns ==
  << "path", "title", "h1", "h2", "h3", "h4", "h5", "h6", "body",
     "title_normalized", "h1_normalized", "h2_normalized", "h3_normalized",
     "h4_normalized", "h5_normalized", "h6_normalized", "body_normalized",
     "collection", "structure", "sections_index", "mtime" >>

(* the columns declared without UNINDEXED *)
IndexedColumns ==
  { "title_normalized", "h1_normalized", "h2_normalized", "h3_normalized",
    "h4_normalized", "h5_normalized", "h6_normalized", "body_normalized" }

Fields == << "title", "h1", "h2", "h3", "h4", "h5", "h6", "body" >>

NormalizedColumn(f) == f \o "_normalized"

ColumnIndex(c) == CHOOSE i \in DOMAIN Columns : Columns[i] = c

(* Weights are counted in halves, so that 1.5 is the integer 3. *)
DefaultWeights ==
  [title |-> 20, h1 |-> 18, h2 |-> 14, h3 |-> 10, h4 |-> 6, h5 |-> 4, h6 |-> 3, body |-> 2]
TitleOnlyWeights ==
  [title |-> 20, h1 |-> 0, h2 |-> 0, h3 |-> 0, h4 |-> 0, h5 |-> 0, h6 |-> 0, body |-> 0]
WeightOptions == {DefaultWeights, TitleOnlyWeights}

(* minScore: null, or a number in the unit of the weights *)
NullScore == << >>
MinScoreOptions == {NullScore, <<-10>>, <<-2>>}

(* bm25(docs_fts, 0, 0, 0, 0, 0, 0, 0, 0, ?, ?, ?, ?, ?, ?, ?, ?) with the *)
(* eight weights bound in the order title, h1 ... h6, body                *)
Bm25Args(w) ==
  << 0, 0, 0, 0, 0, 0, 0, 0 >> \o [i \in DOMAIN Fields |-> w[Fields[i]]]

(* The weight bm25 gives a column without an argument: 1.0 *)
UnweightedColumn == 2

(* bm25 pairs its arguments with the columns of the table by position,    *)
(* UNINDEXED columns included.                                            *)
ColumnWeight(args, c) ==
  LET i == ColumnIndex(c)
  IN IF i <= Len(args) THEN args[i] ELSE UnweightedColumn

(* The field of a document's Markdown that holds a term. *)
TermField ==
  << [x |-> "title"], [x |-> "h1", y |-> "body"], [y |-> "title"] >>

(* The hits of the term in a column of the row: only indexed columns are  *)
(* searched, and body_normalized is the whole Markdown, headings and      *)
(* title included.                                                        *)
Hits(r, c, q) ==
  IF /\ c \in IndexedColumns
     /\ q \in DOMAIN TermField[r.content]
     /\ c \in {NormalizedColumn(TermField[r.content][q]), "body_normalized"}
  THEN 1 ELSE 0

RECURSIVE WeightedHits(_, _, _, _)
WeightedHits(r, q, args, i) ==
  IF i > Len(Columns) THEN 0
  ELSE ColumnWeight(args, Columns[i]) * Hits(r, Columns[i], q)
       + WeightedHits(r, q, args, i + 1)

(* bm25: the better match has the smaller value *)
Rank(r, q, w) == 0 - WeightedHits(r, q, Bm25Args(w), 1)

(* AND bm25(...) >= ?, added to the query when minScore is not null *)
ScoreCondition(r, q, w, minScore) == Rank(r, q, w) >= minScore[1]

RankedSelected(st, q, filterTags, w, minScore) ==
  {r \in Selected(st, q, filterTags) : minScore # NullScore => ScoreCondition(r, q, w, minScore)}

(* search(query, {tags, minScore}) of an instance built with weights w:   *)
(* the rows it returns with their rank, and totalCount.                   *)
RankedSearch(q, filterTags, w, minScore) ==
  LET rows == RankedSelected(store, q, filterTags, w, minScore)
  IN /\ last' = [op |-> "search", query |-> q, weights |-> w, minScore |-> minScore,
                 filterTags |-> filterTags,
                 applied |-> [c \in {Columns[i] : i \in DOMAIN Columns} |-> ColumnWeight(Bm25Args(w), c)],
                 results |-> {<<r, Rank(r, q, w)>> : r \in rows},
                 total |-> SumCopies(store, rows)]
     /\ UNCHANGED <<store, fs, calls, nextUuid, envLeft, opsLeft, faultsLeft>>

NextRank ==
  \/ \E content \in BufferContents, tags \in AddTagOptions : AddBuffer(content, tags, TRUE)
  \/ \E q \in Queries, ft \in FilterOptions, w \in WeightOptions, ms \in MinScoreOptions :
        RankedSearch(q, ft, w, ms)

(* Buffers are added and searched with a weight configuration and a       *)
(* minimum score.                                                         *)
SpecRank == Init /\ [][NextRank]_vars

IsSearch == "op" \in DOMAIN last /\ last.op = "search"

(* The rows a search of the state's store matches before the score filter *)
Candidates == Selected(store, last.query, last.filterTags)

\* C11: a search with min_score selects and counts exactly the records that
\* match the query and whose rank is at most min_score (a smaller rank is a
\* better match); none with a rank above min_score is selected or counted.
MinScoreKeepsRanksAtMost ==
  (IsSearch /\ last.minScore # NullScore) =>
    LET keep == {r \in Candidates : Rank(r, last.query, last.weights) <= last.minScore[1]}
    IN /\ {res[1] : res \in last.results} = keep
       /\ last.total = SumCopies(store, keep)

\* C12: in the ranking expression the weight of each field f of title, h1 ...
\* h6, body is the weight of the indexed column f_normalized, and every
\* unindexed column has weight 0.
WeightsAlignWithColumns ==
  IsSearch =>
    /\ \A i \in DOMAIN Fields :
         last.applied[NormalizedColumn(Fields[i])] = last.weights[Fields[i]]
    /\ \A c \in DOMAIN last.applied : c \notin IndexedColumns => last.applied[c] = 0

---------------------------------------------------------------------------
(* _normalizeText and _normalizeQuery *)

(* A text is a sequence of characters. The characters: the letters o and  *)
(* r in both cases, the precomposed U+00F3 and U+00D3, and the combining  *)
(* acute accent U+0301.                                                   *)
PrecomposedLower == "o_acute"
PrecomposedUpper == "O_acute"
CombiningAcute == "acute"
Alphabet == {"o", "O", "r", "R", PrecomposedLower, PrecomposedUpper, CombiningAcute}

MaxTextLen == 3

RECURSIVE TextsUpTo(_)
TextsUpTo(n) ==
  IF n = 0 THEN {<< >>}
  ELSE LET shorter == TextsUpTo(n - 1)
       IN shorter \cup {Append(t, c) : t \in shorter, c \in Alphabet}

Texts == TextsUpTo(MaxTextLen)

(* text.normalize('NFD'): a precomposed letter becomes its base letter    *)
(* followed by the combining mark                                         *)
Decompose(c) ==
  CASE c = PrecomposedLower -> <<"o", CombiningAcute>>
    [] c = PrecomposedUpper -> <<"O", CombiningAcute>>
    [] OTHER -> <<c>>

RECURSIVE NFD(_)
NFD(text) == IF text = << >> THEN << >> ELSE Decompose(Head(text)) \o NFD(Tail(text))

(* the range U+0300 to U+036F *)
IsCombiningMark(c) == c = CombiningAcute

NotCombiningMark(c) == ~IsCombiningMark(c)

(* .replace(/[U+0300-U+036F]/g, '') *)
StripMarks(text) == SelectSeq(text, NotCombiningMark)

LowerChar(c) ==
  CASE c = "O" -> "o"
    [] c = "R" -> "r"
    [] c = PrecomposedUpper -> PrecomposedLower
    [] OTHER -> c

(* .toLowerCase() *)
ToLowerCase(text) == [i \in DOMAIN text |-> LowerChar(text[i])]

(* _normalizeText with the marks stripped before the decomposition. *)
NormalizeTextStripFirst(text) ==
  IF text = << >> THEN << >> ELSE ToLowerCase(NFD(StripMarks(text)))

(* _normalizeText that leaves the letter case. *)
NormalizeTextKeepCase(text) ==
  IF text = << >> THEN << >> ELSE StripMarks(NFD(text))

NormalizeText(text) ==
  IF text = << >> THEN << >> ELSE ToLowerCase(StripMarks(NFD(text)))

(* _indexMarkdown stores a text next to _normalizeText of it. *)
NormalizeTextCall(text) ==
  /\ opsLeft > 0
  /\ opsLeft' = opsLeft - 1
  /\ last' = [op |-> "normalizeText", text |-> text, out |-> NormalizeText(text)]
  /\ UNCHANGED <<store, fs, calls, nextUuid, envLeft, faultsLeft>>

MaxOpsText == 1

InitText == InitWith(MaxOpsText, 0)

NextText == \E text \in Texts : NormalizeTextCall(text)

(* Texts are normalized. *)
SpecText == InitText /\ [][NextText]_vars

IsNormalize == "op" \in DOMAIN last /\ last.op = "normalizeText"

(* A query is a sequence of parts as /"[^"]*"|'[^']*'|\S+/g cuts them: a   *)
(* bare word, field:word, or a phrase in double quotes, "word" or         *)
(* "field:word".                                                          *)
NoField == << >>
Bare(word) == [field |-> NoField, word |-> word, quoted |-> FALSE]
Fielded(f, word) == [field |-> <<f>>, word |-> word, quoted |-> FALSE]
Quoted(field, word) == [field |-> field, word |-> word, quoted |-> TRUE]

(* the field names _normalizeQuery rewrites *)
AcceptedFields == {"title", "h1", "h2", "h3", "h4", "h5", "h6", "headings", "body"}

(* .replace(/\btitle:/gi, 'title_normalized:') and its eight siblings *)
RewriteField(part) ==
  IF part.field # NoField /\ part.field[1] \in AcceptedFields
  THEN [part EXCEPT !.field = <<NormalizedColumn(part.field[1])>>]
  ELSE part

UpperChar(c) ==
  CASE c = "o" -> "O"
    [] c = "r" -> "R"
    [] c = PrecomposedLower -> PrecomposedUpper
    [] OTHER -> c

ToUpperCase(text) == [i \in DOMAIN text |-> UpperChar(text[i])]

OperatorWords == {<<"A", "N", "D">>, <<"O", "R">>, <<"N", "O", "T">>}

(* /^(AND|OR|NOT|\(|\)|:)$/i.test(part) *)
IsOperatorWord(part) ==
  ~part.quoted /\ part.field = NoField /\ ToUpperCase(part.word) \in OperatorWords

(* part.includes('_normalized:') *)
IsNormalizedField(part) ==
  part.field # NoField /\ part.field[1] \in {NormalizedColumn(f) : f \in AcceptedFields}

NormalizePart(part) ==
  IF part.quoted \/ IsOperatorWord(part) \/ IsNormalizedField(part)
  THEN part
  ELSE [part EXCEPT !.word = NormalizeText(part.word)]

NormalizeQuery(query) ==
  IF query = << >> THEN << >>
  ELSE [i \in DOMAIN query |-> NormalizePart(RewriteField(query[i]))]

(* The tokenizer of the table (unicode61, the default): it folds the case *)
(* and removes the diacritics of what is stored and of what is asked.     *)
Unicode61(word) == ToLowerCase(StripMarks(NFD(word)))

(* The words of a document's Markdown, and those of its title. *)
DocWords ==
  << {<<"o", "r">>},
     {<<"O_acute", "R">>, <<"r", "o">>},
     {<<"r", "o", "acute">>} >>
TitleWords ==
  << {<<"o", "r">>}, {<<"O_acute", "R">>}, {} >>

(* What _indexMarkdown stores in a column, as the tokenizer reads it. *)
ColumnTokens(r, c) ==
  LET words == CASE c = "body_normalized" -> DocWords[r.content]
                 [] c = "title_normalized" -> TitleWords[r.content]
                 [] OTHER -> {}
  IN {Unicode61(NormalizeText(w)) : w \in words}

(* AND, OR and NOT are operators of the query language in capitals only *)
IsFts5Operator(part) == ~part.quoted /\ part.field = NoField /\ part.word \in OperatorWords

ColumnSet == {Columns[i] : i \in DOMAIN Columns}

(* The MATCH is refused: an empty expression, a column filter on a name   *)
(* that is not a column of the table, or an operator without operands on  *)
(* both sides.                                                            *)
QueryError(internal) ==
  \/ internal = << >>
  \/ \E i \in DOMAIN internal :
       \/ ~internal[i].quoted /\ internal[i].field # NoField
            /\ internal[i].field[1] \notin ColumnSet
       \/ IsFts5Operator(internal[i]) /\ (i = 1 \/ i = Len(internal))

(* A phrase is tokenized like a document; the name before the colon of a *)
(* phrase is one more word of it, and no document has such a word.        *)
PartMatches(r, part) ==
  LET token == Unicode61(part.word)
  IN IF part.field = NoField
     THEN \E c \in IndexedColumns : token \in ColumnTokens(r, c)
     ELSE ~part.quoted /\ token \in ColumnTokens(r, part.field[1])

(* docs_fts MATCH ? for parts without operators: every part is found *)
Fts5Match(r, internal) == \A i \in DOMAIN internal : PartMatches(r, internal[i])

(* A word of a query starts with a letter. *)
QueryWords == {w \in Texts : w # << >> /\ ~IsCombiningMark(w[1])}
PairWords == {<<"o", "r">>, <<"O", "r">>, <<"r", "o">>, <<"R", "O_acute">>}
FieldWords == {<<"o", "r">>, <<"O_acute", "R">>}
PhraseWords == FieldWords \cup {<<"O", "R">>, <<"r", "o", "acute">>}
FieldNames == AcceptedFields \cup {"author"}
TextQueries ==
  {<<Bare(w)>> : w \in QueryWords}
    \cup {<<Bare(v), Bare(w)>> : v \in PairWords, w \in PairWords}
    \cup {<<Fielded(f, w)>> : f \in FieldNames, w \in FieldWords}
    \cup {<<Quoted(NoField, w)>> : w \in PhraseWords}
    \cup {<<Quoted(<<"title">>, w)>> : w \in FieldWords}

(* search(query): the query is rewritten and handed to the MATCH; a       *)
(* refused query makes the call throw.                                    *)
SearchQuery(q) ==
  LET internal == NormalizeQuery(q)
      rows == IF QueryError(internal) THEN {}
              ELSE {r \in DOMAIN store : Fts5Match(r, internal)}
  IN /\ opsLeft > 0
     /\ opsLeft' = opsLeft - 1
     /\ last' = [op |-> "query", query |-> q, internal |-> internal,
                 outcome |-> IF QueryError(internal) THEN "rejected" ELSE "resolved",
                 matched |-> rows,
                 total |-> SumCopies(store, rows)]
     /\ UNCHANGED <<store, fs, calls, nextUuid, envLeft, faultsLeft>>

MaxOpsQuery == 2

InitQuery == InitWith(MaxOpsQuery, 0)

NextQuery ==
  \/ \E content \in BufferContents, tags \in AddTagOptions : AddBuffer(content, tags, TRUE)
  \/ \E q \in TextQueries : SearchQuery(q)

(* Buffers are added and queries are searched. *)
SpecQuery == InitQuery /\ [][NextQuery]_vars

IsQuery == "op" \in DOMAIN last /\ last.op = "query"

\* C13: for each accepted field name (title, h1 ... h6, headings, body) a
\* field:term query is rewritten to a restriction that names a column of the
\* table, so the search does not fail as an invalid query.
FieldQueryNamesColumn ==
  IsQuery =>
    \A i \in DOMAIN last.query :
      (~last.query[i].quoted /\ last.query[i].field # NoField
         /\ last.query[i].field[1] \in AcceptedFields)
        => /\ last.internal[i].field[1] \in ColumnSet
           /\ last.outcome = "resolved"

BaseChar(c) ==
  CASE c \in {"o", "O", PrecomposedLower, PrecomposedUpper} -> "o"
    [] c \in {"r", "R"} -> "r"
    [] OTHER -> c

(* The letters of a word without their accents and their case. *)
RECURSIVE BaseLetters(_)
BaseLetters(word) ==
  IF word = << >> THEN << >>
  ELSE (IF IsCombiningMark(Head(word)) THEN << >> ELSE <<BaseChar(Head(word))>>)
         \o BaseLetters(Tail(word))

(* A query made of bare terms: no field, no operator of the query language. *)
BareTermQuery(q) ==
  \A i \in DOMAIN q : ~q[i].quoted /\ q[i].field = NoField /\ ~IsFts5Operator(q[i])

(* One query is the other with accented characters replaced by their base *)
(* characters or with the case of letters changed.                        *)
SameUpToCaseAndAccents(q1, q2) ==
  /\ Len(q1) = Len(q2)
  /\ \A i \in DOMAIN q1 : BaseLetters(q1[i].word) = BaseLetters(q2[i].word)

Variants(q) ==
  {q2 \in TextQueries : BareTermQuery(q2) /\ SameUpToCaseAndAccents(q, q2)}

MatchedBy(q) ==
  IF QueryError(NormalizeQuery(q)) THEN {}
  ELSE {r \in DOMAIN store : Fts5Match(r, NormalizeQuery(q))}

(* Two internal queries are the same but for the case of the words and,   *)
(* or, not.                                                               *)
SameButOperatorCase(a, b) ==
  /\ Len(a) = Len(b)
  /\ \A i \in DOMAIN a :
       \/ a[i] = b[i]
       \/ IsOperatorWord(a[i]) /\ IsOperatorWord(b[i])
            /\ ToUpperCase(a[i].word) = ToUpperCase(b[i].word)

QuotedPhraseIsNormalized ==
  IsQuery =>
    \A i \in DOMAIN last.query :
      last.query[i].quoted =>
        /\ last.internal[i].quoted
        /\ last.internal[i].word = NormalizeText(last.query[i].word)

(* What _normalizeQuery does with a phrase in double quotes: the words   *)
(* stay as they were written, and a field name followed by a colon inside *)
(* the phrase is renamed to its normalized column as it is outside        *)
(* quotes. A phrase without such a name finds what its normalized form    *)
(* finds, the index folding case and accents itself.                      *)
QuotedPhraseIsPreserved ==
  IsQuery =>
    \A i \in DOMAIN last.query :
      last.query[i].quoted =>
        /\ last.internal[i].quoted
        /\ last.internal[i].word = last.query[i].word
        /\ last.internal[i].field = RewriteField(last.query[i]).field
        /\ last.query[i].field = NoField =>
             last.matched = MatchedBy(<<Quoted(NoField, NormalizeText(last.query[i].word))>>)

(* A phrase with a capital and an accent has been searched as written and *)
(* has found a document, although its normalized form is another text.    *)
AccentedPhraseFound ==
  /\ IsQuery
  /\ Len(last.query) = 1
  /\ last.query[1].quoted
  /\ last.query[1].field = NoField
  /\ NormalizeText(last.query[1].word) # last.query[1].word
  /\ last.internal = last.query
  /\ last.matched # {}

(* A phrase that holds a field name and a colon has been rewritten to    *)
(* another phrase.                                                        *)
PhraseWithFieldNameRewritten ==
  /\ IsQuery
  /\ \E i \in DOMAIN last.query :
       last.query[i].quoted /\ last.internal[i].field # last.query[i].field

\* C15: for every raw/normalized pair of a stored record the normalized string
\* has the length of the raw string, including when an accent is written as a
\* base character followed by a combining mark.
NormalizedKeepsLength ==
  IsNormalize => Len(last.out) = Len(last.text)

\* C16: normalizing is idempotent and is defined for every string, the empty
\* string included.
NormalizeIsIdempotent ==
  IsNormalize =>
    /\ last.out \in Seq(Alphabet)
    /\ NormalizeText(last.out) = last.out
    /\ last.text = << >> => last.out = << >>

\* A text with a capital, a precomposed accent and a combining mark has been
\* normalized to something else.
NormalizedAccentedText ==
  /\ IsNormalize
  /\ {"R", PrecomposedUpper, CombiningAcute} \subseteq {last.text[i] : i \in DOMAIN last.text}
  /\ last.out # last.text
  /\ last.out # << >>

---------------------------------------------------------------------------
(* extractMarkdownFields: the structure of a document *)

MaxNodes == 3
MaxHeadingDepth == 3

(* The nodes of a parsed Markdown text that the visitor looks at: a       *)
(* heading with its depth and text (the text may be empty), a paragraph   *)
(* (its text is empty when it holds an image only) and a code block. The  *)
(* word c is one character long, the others are longer.                   *)
Heading(d, t) == [type |-> "heading", depth |-> d, text |-> t]
Paragraph(t) == [type |-> "paragraph", depth |-> 0, text |-> t]
CodeBlock(t) == [type |-> "code", depth |-> 0, text |-> t]
(* a text of two words, aa and bb *)
TwoWords == "aa bb"
NodeInputs ==
  {Heading(d, t) : d \in 1..MaxHeadingDepth, t \in {"aa", "bb"}}
    \cup {Heading(1, TwoWords), Heading(1, ""), Paragraph("aa"), Paragraph("c"),
          Paragraph(""), CodeBlock("aa")}

NoId == << >>
HeadingTypes == <<"h1", "h2", "h3", "h4", "h5", "h6">>

(* The variables of extractMarkdownFields before the first node. nodes is *)
(* the Markdown read so far; a node's place in it stands for its offset.  *)
(* includeCodeBlocks is the option of the instance, off unless asked for. *)
EmptyParse ==
  [nodes |-> << >>, title |-> "", h |-> [d \in 1..6 |-> << >>],
   structure |-> << >>, stack |-> << >>, sectionsIndex |-> << >>,
   currentSection |-> NoId, sectionIdCounter |-> 0,
   bodyParts |-> << >>, includeCodeBlocks |-> FALSE]

(* sectionsIndex[sectionId]: the section s<n> is the n+1st of the index *)
SectionAt(index, id) == index[id + 1]
Resolves(index, id) == id + 1 \in DOMAIN index

(* The pop that leaves a section of the same depth on the stack. *)
RECURSIVE PopStackDeeperOnly(_, _, _)
PopStackDeeperOnly(stack, index, depth) ==
  IF stack # << >> /\ SectionAt(index, stack[Len(stack)]).depth > depth
  THEN PopStackDeeperOnly(SubSeq(stack, 1, Len(stack) - 1), index, depth)
  ELSE stack

(* while (stack.length > 0 && stack[stack.length - 1].depth >= node.depth) *)
(*   stack.pop()                                                          *)
RECURSIVE PopStack(_, _, _)
PopStack(stack, index, depth) ==
  IF stack # << >> /\ SectionAt(index, stack[Len(stack)]).depth >= depth
  THEN PopStack(SubSeq(stack, 1, Len(stack) - 1), index, depth)
  ELSE stack

Block(node, at) == [type |-> node.type, text |-> node.text, at |-> at]

VisitHeading(p, node) ==
  LET at == Len(p.nodes) + 1
      read == [p EXCEPT !.nodes = Append(p.nodes, node)]
      sectionId == p.sectionIdCounter
      stack == PopStack(p.stack, p.sectionsIndex, node.depth)
      parentId == IF stack # << >> THEN <<stack[Len(stack)]>> ELSE NoId
      section == [id |-> sectionId, type |-> HeadingTypes[node.depth], depth |-> node.depth,
                  text |-> <<node.text>>, content |-> << >>, childrenIds |-> << >>,
                  parentId |-> parentId, position |-> <<at>>]
      index == Append(p.sectionsIndex, section)
      linked == IF parentId = NoId THEN index
                ELSE [index EXCEPT ![parentId[1] + 1].childrenIds = Append(@, sectionId)]
  IN IF node.text = "" THEN read
     ELSE [read EXCEPT
             !.sectionIdCounter = sectionId + 1,
             !.sectionsIndex = linked,
             !.title = IF node.depth = 1 /\ p.title = "" THEN node.text ELSE @,
             !.h = IF node.depth = 1 /\ p.title = "" THEN @
                   ELSE [@ EXCEPT ![node.depth] = Append(@, node.text)],
             !.structure = IF parentId = NoId THEN Append(@, sectionId) ELSE @,
             !.stack = Append(stack, sectionId),
             !.currentSection = <<sectionId>>]

VisitParagraph(p, node) ==
  LET at == Len(p.nodes) + 1
      read == [p EXCEPT !.nodes = Append(p.nodes, node)]
      orphanId == p.sectionIdCounter
      orphanContent == [id |-> orphanId, type |-> "body", depth |-> 0, text |-> << >>,
                        content |-> <<Block(node, at)>>, childrenIds |-> << >>,
                        parentId |-> NoId, position |-> << >>]
  IN IF node.text = "" THEN read
     ELSE IF p.currentSection # NoId
     THEN [read EXCEPT !.bodyParts = Append(@, node.text),
                       !.sectionsIndex[p.currentSection[1] + 1].content = Append(@, Block(node, at))]
     ELSE [read EXCEPT !.bodyParts = Append(@, node.text),
                       !.sectionIdCounter = orphanId + 1,
                       !.structure = Append(@, orphanId),
                       !.sectionsIndex = Append(@, orphanContent)]

VisitCode(p, node) ==
  LET at == Len(p.nodes) + 1
      read == [p EXCEPT !.nodes = Append(p.nodes, node)]
  IN IF ~(p.includeCodeBlocks /\ node.text # "") THEN read
     ELSE IF p.currentSection # NoId
     THEN [read EXCEPT !.bodyParts = Append(@, node.text),
                       !.sectionsIndex[p.currentSection[1] + 1].content = Append(@, Block(node, at))]
     ELSE [read EXCEPT !.bodyParts = Append(@, node.text)]

(* the callback of visit(tree, ...) on one node *)
Visit(p, node) ==
  CASE node.type = "heading" -> VisitHeading(p, node)
    [] node.type = "paragraph" -> VisitParagraph(p, node)
    [] OTHER -> VisitCode(p, node)

IsParsing == "op" \in DOMAIN last /\ last.op = "parse"
Parsed == IF IsParsing THEN last.doc ELSE EmptyParse

(* The parser of an instance built with the option visits the next node  *)
(* of the Markdown text.                                                  *)
VisitNode(node, includeCodeBlocks) ==
  /\ last = NoLast \/ (IsParsing /\ last.doc.includeCodeBlocks = includeCodeBlocks)
  /\ Len(Parsed.nodes) < MaxNodes
  /\ last' = [op |-> "parse",
              doc |-> Visit([Parsed EXCEPT !.includeCodeBlocks = includeCodeBlocks], node)]
  /\ UNCHANGED <<store, fs, calls, nextUuid, envLeft, opsLeft, faultsLeft>>

---------------------------------------------------------------------------
(* _extractAllSnippets, _createNavigableSnippet and the Snippet methods *)

TermInputs == {"aa", "bb", "c"}
Separators == {" > ", "/"}

(* options.limitSnippets *)
LimitSnippets == 5

WordLength(w) == IF w = "c" THEN 1 ELSE 2

(* .filter(term => term.replace(/\*/g, '').length > 1) *)
SearchTerms(term) == IF WordLength(term) > 1 THEN {term} ELSE {}

(* termObj.regex.test(text), the pattern being \bterm\b *)
HoldsWord(text, term) == text = term \/ (text = TwoWords /\ term \in {"aa", "bb"})

(* text.includes(part) *)
Includes(text, part) == part = "" \/ text = part \/ (text = TwoWords /\ part \in {"aa", "bb"})

(* _findSectionInStructure: the first section of the index with the type  *)
(* whose text holds the text looked for                                   *)
FindSectionInStructure(index, text, type) ==
  LET sectionText(i) == IF index[i].text = << >> THEN "" ELSE index[i].text[1]
      found == {i \in DOMAIN index : index[i].type = type /\ Includes(sectionText(i), text)}
  IN IF found = {} THEN NoId
     ELSE <<index[CHOOSE i \in found : \A j \in found : i <= j].id>>

(* _createNavigableSnippet(text, section, position, ...): section is a    *)
(* section of the index or, failing that, the name of a field.            *)
CreateNavigableSnippet(from, text, field, section, position, index) ==
  IF section = NoId
  THEN [from |-> from, text |-> text, section |-> field, position |-> position,
        sectionId |-> NoId, parentId |-> NoId]
  ELSE [from |-> from, text |-> text, section |-> SectionAt(index, section[1]).type,
        position |-> position, sectionId |-> section,
        parentId |-> SectionAt(index, section[1]).parentId]

TitleSnippets(d, terms) ==
  IF d.title # "" /\ \E term \in terms : HoldsWord(d.title, term)
  THEN <<CreateNavigableSnippet("title", d.title, "title", NoId, 0, d.sectionsIndex)>>
  ELSE << >>

(* the lines of one heading field that hold the term *)
RECURSIVE LineSnippets(_, _, _, _)
LineSnippets(d, terms, depth, i) ==
  LET lines == d.h[depth]
      type == HeadingTypes[depth]
  IN IF i > Len(lines) THEN << >>
     ELSE (IF \E term \in terms : HoldsWord(lines[i], term)
           THEN <<CreateNavigableSnippet("heading", lines[i], type,
                    FindSectionInStructure(d.sectionsIndex, lines[i], type), i - 1,
                    d.sectionsIndex)>>
           ELSE << >>) \o LineSnippets(d, terms, depth, i + 1)

RECURSIVE HeadingSnippets(_, _, _)
HeadingSnippets(d, terms, depth) ==
  IF depth > 6 THEN << >>
  ELSE LineSnippets(d, terms, depth, 1) \o HeadingSnippets(d, terms, depth + 1)

(* Primary: the first section of the index with a content block around   *)
(* the match.                                                             *)
SectionByContent(index, at) ==
  LET found == {i \in DOMAIN index : \E b \in DOMAIN index[i].content : index[i].content[b].at = at}
  IN IF found = {} THEN NoId
     ELSE <<index[CHOOSE i \in found : \A j \in found : i <= j].id>>

(* Fallback: the nearest heading that starts at or before the match. *)
NearestSection(index, at) ==
  LET before == {i \in DOMAIN index : index[i].position # << >> /\ index[i].position[1] <= at}
  IN IF before = {} THEN NoId
     ELSE <<index[CHOOSE i \in before : \A j \in before : index[j].position[1] <= index[i].position[1]].id>>

BodySection(index, at) ==
  IF index = << >> THEN NoId
  ELSE IF SectionByContent(index, at) # NoId THEN SectionByContent(index, at)
  ELSE NearestSection(index, at)

(* body is the whole Markdown: the term is found in every node that holds it *)
RECURSIVE BodySnippets(_, _, _)
BodySnippets(d, terms, at) ==
  IF at > Len(d.nodes) THEN << >>
  ELSE (IF \E term \in terms : HoldsWord(d.nodes[at].text, term)
        THEN <<CreateNavigableSnippet("body", d.nodes[at].text, "body",
                 BodySection(d.sectionsIndex, at), at, d.sectionsIndex)>>
        ELSE << >>) \o BodySnippets(d, terms, at + 1)

FallbackSnippet(d) ==
  IF d.nodes = << >> THEN << >>
  ELSE <<CreateNavigableSnippet("fallback", d.nodes[1].text, "body",
           IF d.structure # << >> THEN <<d.structure[1]>> ELSE NoId, 0, d.sectionsIndex)>>

(* the values of options.limitSnippets asked for *)
LimitOptions == {0, 1, LimitSnippets}

(* Every loop over the matches goes on while snippets.length is below     *)
(* limitSnippets; the fallback is taken when the loops have left nothing. *)
ExtractAllSnippets(d, term, limitSnippets) ==
  LET terms == SearchTerms(term)
      all == TitleSnippets(d, terms) \o HeadingSnippets(d, terms, 1) \o BodySnippets(d, terms, 1)
      snippets == SubSeq(all, 1, IF Len(all) < limitSnippets THEN Len(all) ELSE limitSnippets)
  IN IF snippets = << >> THEN FallbackSnippet(d) ELSE snippets

(* What _indexMarkdown stores in body_normalized: the Markdown itself,    *)
(* whatever the parser made of it.                                        *)
BodyNormalized(d) == [at \in DOMAIN d.nodes |-> d.nodes[at].text]

(* docs_fts MATCH ? on the document: body_normalized holds the term *)
DocMatches(d, term) ==
  \E at \in DOMAIN BodyNormalized(d) : HoldsWord(BodyNormalized(d)[at], term)

(* The document is indexed and a search for a term it holds builds the    *)
(* snippets of the hit.                                                   *)
ExtractSnippets(term, limitSnippets) ==
  /\ IsParsing
  /\ DocMatches(last.doc, term)
  /\ last' = [op |-> "snippets", doc |-> last.doc, term |-> term, limit |-> limitSnippets,
              snippets |-> ExtractAllSnippets(last.doc, term, limitSnippets)]
  /\ UNCHANGED <<store, fs, calls, nextUuid, envLeft, opsLeft, faultsLeft>>

(* getHeadingById: null for an id that is not in the index *)
GetHeadingById(index, id) ==
  IF ~Resolves(index, id) THEN << >>
  ELSE LET section == SectionAt(index, id)
       IN <<[id |-> section.id, type |-> section.type, text |-> section.text,
             depth |-> section.depth,
             parent |-> IF section.parentId # NoId /\ Resolves(index, section.parentId[1])
                        THEN section.parentId ELSE NoId]>>

Crumb(details) ==
  [id |-> details.id, type |-> details.type, text |-> details.text, depth |-> details.depth]

(* breadcrumbs.push(...) in the place of unshift *)
Push(breadcrumbs, crumb) == Append(breadcrumbs, crumb)

Unshift(breadcrumbs, crumb) == <<crumb>> \o breadcrumbs

(* The loop of getBreadcrumbs; steps is what is left of a number of       *)
(* rounds no walk up a tree of the index needs.                           *)
RECURSIVE Walk(_, _, _, _)
Walk(index, currentId, breadcrumbs, steps) ==
  IF currentId = NoId \/ GetHeadingById(index, currentId[1]) = << >>
  THEN [crumbs |-> breadcrumbs, returned |-> TRUE]
  ELSE IF steps = 0 THEN [crumbs |-> breadcrumbs, returned |-> FALSE]
  ELSE LET details == GetHeadingById(index, currentId[1])[1]
       IN Walk(index, details.parent, Unshift(breadcrumbs, Crumb(details)), steps - 1)

GetBreadcrumbs(index, sectionId) == Walk(index, sectionId, << >>, Len(index) + 1)

CrumbText(crumb) == IF crumb.text = << >> THEN "" ELSE crumb.text[1]

(* .map(crumb => crumb.text).join(separator) *)
RECURSIVE Join(_, _)
Join(crumbs, separator) ==
  IF crumbs = << >> THEN ""
  ELSE IF Len(crumbs) = 1 THEN CrumbText(crumbs[1])
  ELSE CrumbText(crumbs[1]) \o separator \o Join(Tail(crumbs), separator)

(* getBreadcrumbs and getBreadcrumbsText of a snippet of the search *)
Breadcrumbs(i, separator) ==
  /\ "op" \in DOMAIN last /\ last.op = "snippets"
  /\ i \in DOMAIN last.snippets
  /\ LET walk == GetBreadcrumbs(last.doc.sectionsIndex, last.snippets[i].sectionId)
     IN last' = [op |-> "breadcrumbs", doc |-> last.doc, snippet |-> last.snippets[i],
                 separator |-> separator, crumbs |-> walk.crumbs, returned |-> walk.returned,
                 text |-> Join(walk.crumbs, separator)]
  /\ UNCHANGED <<store, fs, calls, nextUuid, envLeft, opsLeft, faultsLeft>>

NextDoc ==
  \/ \E node \in NodeInputs, includeCodeBlocks \in BOOLEAN : VisitNode(node, includeCodeBlocks)
  \/ \E term \in TermInputs, limitSnippets \in LimitOptions : ExtractSnippets(term, limitSnippets)
  \/ \E i \in 1..LimitSnippets, separator \in Separators : Breadcrumbs(i, separator)

(* A Markdown text is parsed node by node, searched, and the snippets of  *)
(* the hit are navigated.                                                 *)
SpecDoc == Init /\ [][NextDoc]_vars

SectionIds(index) == {index[i].id : i \in DOMAIN index}

RECURSIVE ReachesRoot(_, _, _)
ReachesRoot(index, id, steps) ==
  \/ SectionAt(index, id).parentId = NoId
  \/ /\ steps > 0
     /\ Resolves(index, SectionAt(index, id).parentId[1])
     /\ ReachesRoot(index, SectionAt(index, id).parentId[1], steps - 1)

Occurrences(seq, x) == Cardinality({i \in DOMAIN seq : seq[i] = x})

\* C17: for every sequence of headings and content blocks parsed, every id
\* used as parent or child resolves in the sections index, every section with
\* a parent is exactly once among the children of that parent, the parent
\* relation is a forest whose roots are exactly the elements of structure, and
\* depth strictly increases from a parent to each of its children.
SectionTreeIntegrity ==
  IsParsing =>
    LET index == last.doc.sectionsIndex
        structure == last.doc.structure
    IN /\ \A i \in DOMAIN index : index[i].id = i - 1
       /\ \A i \in DOMAIN index :
            /\ index[i].parentId # NoId => Resolves(index, index[i].parentId[1])
            /\ \A c \in DOMAIN index[i].childrenIds : Resolves(index, index[i].childrenIds[c])
       /\ \A i \in DOMAIN index :
            index[i].parentId # NoId =>
              /\ Occurrences(SectionAt(index, index[i].parentId[1]).childrenIds, index[i].id) = 1
              /\ SectionAt(index, index[i].parentId[1]).depth < index[i].depth
       /\ \A i \in DOMAIN index : \A c \in DOMAIN index[i].childrenIds :
            SectionAt(index, index[i].childrenIds[c]).parentId = <<index[i].id>>
       /\ \A i \in DOMAIN index : ReachesRoot(index, index[i].id, Len(index))
       /\ {structure[k] : k \in DOMAIN structure} = {index[i].id : i \in {j \in DOMAIN index : index[j].parentId = NoId}}
       /\ \A k \in DOMAIN structure : Occurrences(structure, structure[k]) = 1

\* Three headings have been parsed: one with two children.
ParsedTwoChildren ==
  /\ IsParsing
  /\ \E i \in DOMAIN last.doc.sectionsIndex : Len(last.doc.sectionsIndex[i].childrenIds) = 2

\* C18: every snippet a search emits, from the title, a heading field, the
\* body or the fallback, carries a section id that resolves in the sections
\* index of its document.
EverySnippetHasSection ==
  ("op" \in DOMAIN last /\ last.op = "snippets") =>
    \A i \in DOMAIN last.snippets :
      /\ last.snippets[i].sectionId # NoId
      /\ Resolves(last.doc.sectionsIndex, last.snippets[i].sectionId[1])

\* C21: for every search with snippets and every limit K >= 0 of snippets per
\* document, no document contributes more than K snippets to the results.
NoMoreSnippetsThanLimit ==
  ("op" \in DOMAIN last /\ last.op = "snippets") => Len(last.snippets) <= last.limit

OnlyInCodeBlocks(d, term) ==
  /\ \E at \in DOMAIN d.nodes : HoldsWord(d.nodes[at].text, term)
  /\ \A at \in DOMAIN d.nodes : HoldsWord(d.nodes[at].text, term) => d.nodes[at].type = "code"

\* C26: for a snippet produced from a heading field by a hit on a heading
\* line, the section attached to the snippet has the type of that field's
\* level and the text of the line, so the text of the snippet's heading is the
\* text of the snippet, also when another heading of the level holds the
\* line as a part of its text or repeats it.
HeadingSnippetHasItsOwnSection ==
  ("op" \in DOMAIN last /\ last.op = "snippets") =>
    \A i \in DOMAIN last.snippets :
      last.snippets[i].from = "heading" =>
        /\ last.snippets[i].sectionId # NoId
        /\ LET section == SectionAt(last.doc.sectionsIndex, last.snippets[i].sectionId[1])
           IN /\ section.text = <<last.snippets[i].text>>
              /\ \E depth \in 1..6 :
                   /\ section.type = HeadingTypes[depth]
                   /\ \E l \in DOMAIN last.doc.h[depth] :
                        last.doc.h[depth][l] = last.snippets[i].text

\* C23: a term that occurs only inside code blocks of a document is found by
\* a search if and only if include_code_blocks is true; with the default
\* false the document is not a hit.
CodeBlocksSearchedOnlyIfIncluded ==
  ("op" \in DOMAIN last /\ last.op = "snippets" /\ OnlyInCodeBlocks(last.doc, last.term))
    => last.doc.includeCodeBlocks

\* C27: the parser creates at most one section of type body; it is created on
\* the first content block before any heading, it is the first element of
\* structure, and every content block before the first heading is attached to
\* it in document order.
OneBodyRoot ==
  IsParsing =>
    LET index == last.doc.sectionsIndex
        nodes == last.doc.nodes
        bodies == {i \in DOMAIN index : index[i].type = "body"}
        headings == {at \in DOMAIN nodes : nodes[at].type = "heading" /\ nodes[at].text # ""}
        early == {at \in DOMAIN nodes : /\ nodes[at].type = "paragraph"
                                         /\ nodes[at].text # ""
                                         /\ \A h \in headings : at < h}
    IN /\ Cardinality(bodies) <= 1
       /\ early # {} =>
            /\ Cardinality(bodies) = 1
            /\ \A i \in bodies :
                 /\ last.doc.structure[1] = index[i].id
                 /\ {index[i].content[b].at : b \in DOMAIN index[i].content} = early
                 /\ \A b \in DOMAIN index[i].content, c \in DOMAIN index[i].content :
                      b < c => index[i].content[b].at < index[i].content[c].at

IsCrumbs == "op" \in DOMAIN last /\ last.op = "breadcrumbs"

(* The texts of a path joined, taken from its end. *)
RECURSIVE JoinedFromEnd(_, _, _)
JoinedFromEnd(index, ids, separator) ==
  LET n == Len(ids)
      text == IF SectionAt(index, ids[n]).text = << >> THEN "" ELSE SectionAt(index, ids[n]).text[1]
  IN IF n = 1 THEN text
     ELSE JoinedFromEnd(index, SubSeq(ids, 1, n - 1), separator) \o separator \o text

---------------------------------------------------------------------------
(* Snippet.getText *)

MaxBodyLen == 3
MaxOpsRange == 1

(* A body of the given length; its characters are told apart by their place. *)
BodyOf(len) == [i \in 1..len |-> i]

Max(a, b) == IF a >= b THEN a ELSE b
Min(a, b) == IF a <= b THEN a ELSE b

(* String.prototype.substring: both ends are brought into 0..length and   *)
(* swapped when the first is the greater                                  *)
Substring(body, start, end) ==
  LET s == Min(Max(start, 0), Len(body))
      e == Min(Max(end, 0), Len(body))
  IN SubSeq(body, Min(s, e) + 1, Max(s, e))

(* getText({length, offset}) of a snippet with a position: the content of *)
(* its section when it has one, else the range of the document's body,    *)
(* else the text of the snippet.                                          *)
GetText(hasContent, position, body, length, offset) ==
  IF hasContent THEN [mode |-> "section", text |-> << >>]
  ELSE IF body # << >>
  THEN LET start == Max(0, position + offset)
           end == Min(Len(body), start + length)
       IN [mode |-> "range", text |-> Substring(body, start, end)]
  ELSE [mode |-> "snippet", text |-> << >>]

GetTextCall(hasContent, position, len, length, offset) ==
  /\ position <= len
  /\ opsLeft > 0
  /\ opsLeft' = opsLeft - 1
  /\ last' = [op |-> "getText", position |-> position, body |-> BodyOf(len),
              length |-> length, offset |-> offset,
              out |-> GetText(hasContent, position, BodyOf(len), length, offset)]
  /\ UNCHANGED <<store, fs, calls, nextUuid, envLeft, faultsLeft>>

InitRange == InitWith(MaxOpsRange, 0)

NextRange ==
  \E hasContent \in BOOLEAN, len \in 0..MaxBodyLen, position \in 0..MaxBodyLen,
     length \in (0 - MaxBodyLen)..(MaxBodyLen + 1),
     offset \in (0 - MaxBodyLen - 1)..(MaxBodyLen + 1) :
    GetTextCall(hasContent, position, len, length, offset)

(* getText is called on snippets of documents. *)
SpecRange == InitRange /\ [][NextRange]_vars

Clamp(x, lo, hi) == Min(Max(x, lo), hi)

\* C19: in range mode, for a snippet with position p on a body of length len,
\* get_text({length, offset}) is exactly the body from clamp(p+offset, 0, len)
\* to clamp(p+offset+length, 0, len), for every integer offset, those with
\* p+offset < 0 included, and every length.
RangeIsClampedWindow ==
  ("op" \in DOMAIN last /\ last.op = "getText" /\ last.out.mode = "range") =>
    LET len == Len(last.body)
    IN last.out.text = SubSeq(last.body,
                              Clamp(last.position + last.offset, 0, len) + 1,
                              Clamp(last.position + last.offset + last.length, 0, len))

---------------------------------------------------------------------------
(* scanDirectorySync and the file types of _indexFile *)

MaxListing == 2
MaxOpsScan == 1

(* A file under the directory: its extension as written, whether an       *)
(* ignore pattern of the glob matches its path and whether micromatch     *)
(* matches an exclude pattern against its relative path.                  *)
ExtInputs == {"md", "markdown", "epub", "pdf", "srt", "txt", "MD", "js"}
ScanFiles == [ext : ExtInputs, ignored : BOOLEAN, matched : BOOLEAN]

RECURSIVE ListingsUpTo(_)
ListingsUpTo(n) ==
  IF n = 0 THEN {{}}
  ELSE LET smaller == ListingsUpTo(n - 1)
       IN smaller \cup {l \cup {file} : l \in smaller, file \in ScanFiles}

Listings == ListingsUpTo(MaxListing)

(* the pattern .../*.{md,markdown,epub,pdf} *)
GlobExtensions == {"md", "markdown", "epub", "pdf"}

(* path.extname(filePath).slice(1).toLowerCase() *)
GetFileExtension(ext) == IF ext = "MD" THEN "md" ELSE ext

(* the branches of _indexFile that do not throw Unsupported file type *)
IndexFileExtensions == {"epub", "pdf", "srt", "txt", "md", "markdown"}

IndexFileAccepts(file) == GetFileExtension(file.ext) \in IndexFileExtensions

ScanDirectorySync(listing) ==
  {file \in listing : file.ext \in GlobExtensions /\ ~file.ignored /\ ~file.matched}

(* _indexDirectory scans the directory for its candidates. *)
ScanDirectory(listing) ==
  /\ opsLeft > 0
  /\ opsLeft' = opsLeft - 1
  /\ last' = [op |-> "scan", listing |-> listing, files |-> ScanDirectorySync(listing)]
  /\ UNCHANGED <<store, fs, calls, nextUuid, envLeft, faultsLeft>>

InitScan == InitWith(MaxOpsScan, 0)

NextScan == \E listing \in Listings : ScanDirectory(listing)

(* Directories are scanned. *)
SpecScan == InitScan /\ [][NextScan]_vars

SupportedExtensions == {"md", "markdown", "epub", "pdf", "srt", "txt"}

\* C22: add(directory) takes as candidates every non-excluded file under the
\* directory whose extension is one of md, markdown, epub, pdf, srt, txt,
\* which are exactly the extensions a single-file add accepts.
ScanTakesSupportedExtensions ==
  ("op" \in DOMAIN last /\ last.op = "scan") =>
    /\ last.files = {file \in last.listing :
                       file.ext \in SupportedExtensions /\ ~file.ignored /\ ~file.matched}
    /\ \A file \in last.listing : file.ext \in SupportedExtensions <=> IndexFileAccepts(file)

---------------------------------------------------------------------------
(* _extractAllSnippets: the terms it looks for, character by character *)

MaxQueryTokens == 2
MaxOpsTerms == 1

Space == " "
Star == "*"

(* the tokens a query is written with; Oacute is a capital o with an acute *)
TokenInputs ==
  { <<"r", "o">>, <<"R", "o">>, <<PrecomposedUpper, "r", "o">>, <<"r">>,
    <<"o", "r", "o">>, <<"r", "o", "o", "r">>,
    <<"O", "R">>, <<"o", "r">>,
    <<"r", "o", Star>>, <<"r", Star>>,
    <<"(", "r", "o", ")">>,
    <<"h", "1", ":", "r", "o">> }

RECURSIVE QueriesOf(_)
QueriesOf(n) ==
  IF n = 1 THEN TokenInputs
  ELSE QueriesOf(n - 1) \cup {q \o <<Space>> \o t : q \in QueriesOf(n - 1), t \in TokenInputs}

QueryStrings == QueriesOf(MaxQueryTokens)

NormalizedSuffix == <<"_", "n", "o", "r", "m", "a", "l", "i", "z", "e", "d">>
FieldLetters ==
  << <<"t", "i", "t", "l", "e">>, <<"h", "1">>, <<"h", "2">>, <<"h", "3">>, <<"h", "4">>,
     <<"h", "5">>, <<"h", "6">>, <<"b", "o", "d", "y">> >>

(* /title_normalized:|h1_normalized:|...|body_normalized:|title:|h1:|...|h6:|headings:|body:/gi *)
FieldPrefixes ==
  [i \in 1..8 |-> FieldLetters[i] \o NormalizedSuffix \o <<":">>]
    \o [i \in 1..7 |-> FieldLetters[i] \o <<":">>]
    \o << <<"h", "e", "a", "d", "i", "n", "g", "s", ":">>, FieldLetters[8] \o <<":">> >>

(* /AND|OR|NOT/gi *)
OperatorPatterns == << <<"A", "N", "D">>, <<"O", "R">>, <<"N", "O", "T">> >>

(* /[()]/g *)
Parentheses == << <<"(">>, <<")">> >>

(* the pattern is found at the start of s, whatever the case of the letters *)
StartsWithIgnoreCase(s, pattern) ==
  /\ Len(s) >= Len(pattern)
  /\ \A i \in DOMAIN pattern : LowerChar(s[i]) = LowerChar(pattern[i])

(* s.replace(/p1|p2|.../gi, ''): at each place the first alternative that *)
(* is found there is removed, and the scan goes on after it               *)
RECURSIVE ReplaceAll(_, _)
ReplaceAll(s, patterns) ==
  IF s = << >> THEN << >>
  ELSE LET found == {k \in DOMAIN patterns : StartsWithIgnoreCase(s, patterns[k])}
           first == CHOOSE k \in found : \A j \in found : k <= j
       IN IF found = {} THEN <<Head(s)>> \o ReplaceAll(Tail(s), patterns)
          ELSE ReplaceAll(SubSeq(s, Len(patterns[first]) + 1, Len(s)), patterns)

(* s.split(/\s+/): current is the piece being read *)
RECURSIVE SplitFrom(_, _)
SplitFrom(s, current) ==
  IF s = << >> THEN <<current>>
  ELSE IF Head(s) # Space THEN SplitFrom(Tail(s), Append(current, Head(s)))
  ELSE IF Tail(s) # << >> /\ Head(Tail(s)) = Space THEN SplitFrom(Tail(s), current)
  ELSE <<current>> \o SplitFrom(Tail(s), << >>)

Split(s) == SplitFrom(s, << >>)

(* term.replace(/\*$/, '') *)
DropTrailingStar(term) ==
  IF term # << >> /\ term[Len(term)] = Star THEN SubSeq(term, 1, Len(term) - 1) ELSE term

(* .filter(term => term.replace(/\*/g, '').length > 1).map(...) *)
RECURSIVE FilterMapTerms(_)
FilterMapTerms(terms) ==
  IF terms = << >> THEN << >>
  ELSE LET term == Head(terms)
       IN (IF Len(ReplaceAll(term, <<<<Star>>>>)) > 1
           THEN <<[text |-> NormalizeText(DropTrailingStar(term)),
                   isPrefix |-> term[Len(term)] = Star]>>
           ELSE << >>)
            \o FilterMapTerms(Tail(terms))

(* const searchTerms = query.replace(...).replace(...).replace(...).split(...).filter(...).map(...) *)
ExtractSearchTerms(query) ==
  FilterMapTerms(Split(ReplaceAll(ReplaceAll(ReplaceAll(query, FieldPrefixes),
                                             OperatorPatterns),
                                  Parentheses)))

(* _extractAllSnippets(query, ...) derives its terms *)
DeriveTerms(query) ==
  /\ opsLeft > 0
  /\ opsLeft' = opsLeft - 1
  /\ last' = [op |-> "terms", query |-> query, terms |-> ExtractSearchTerms(query)]
  /\ UNCHANGED <<store, fs, calls, nextUuid, envLeft, faultsLeft>>

InitTerms == InitWith(MaxOpsTerms, 0)

NextTerms == \E query \in QueryStrings : DeriveTerms(query)

(* The terms of queries are derived. *)
SpecTerms == InitTerms /\ [][NextTerms]_vars

IsTerms == "op" \in DOMAIN last /\ last.op = "terms"

(* The term list as described: token by token, an operator keyword being  *)
(* a whole token, in any case of its letters.                             *)
RECURSIVE TermsOfTokens(_)
TermsOfTokens(tokens) ==
  IF tokens = << >> THEN << >>
  ELSE LET token == Head(tokens)
           bare == DropTrailingStar(ReplaceAll(ReplaceAll(token, Parentheses), FieldPrefixes))
       IN (IF ToUpperCase(token) \notin OperatorWords /\ Len(bare) > 1
           THEN <<NormalizeText(bare)>> ELSE << >>)
            \o TermsOfTokens(Tail(tokens))

\* C25: the term list of the snippet extractor is, in query order, the
\* normalized form of each whitespace-separated token of the query that is
\* not an operator keyword, after removing parentheses, field prefixes and a
\* trailing star, and whose remaining length exceeds 1; a word that merely
\* holds the letters of an operator keyword is kept whole.
TermsAreWholeTokens ==
  IsTerms =>
    [i \in DOMAIN last.terms |-> last.terms[i].text] = TermsOfTokens(Split(last.query))

---------------------------------------------------------------------------
(* One file, added by its path or found by the add of its directory *)

\* C28: the decision whether to index a file is the same for an add of the
\* file and for an add of the directory that holds it: for every combination
\* of indexed or not, skipExisting, update, checkModified, stored mtime
\* present or absent, and mtime difference below or at least 1000 ms, the one
\* indexes the file exactly when the other does.
SameDecisionForFileAndDirectory ==
  /\ \A f \in FileNames, o \in Opts :
       FileNeeds(FilePath(f), o)
         = DirDecision(HasDocument(store, FilePath(f)), o,
                       GetDocumentMtime(store, FilePath(f)), fs[f].mtime)
  /\ \A has \in BOOLEAN, o \in Opts, stored \in Mtimes \cup {NullMtime}, current \in Mtimes :
       FileDecision(has, o, stored, current) = DirDecision(has, o, stored, current)

\* An indexed file has been written since and its mtime is now exactly the
\* tolerance away from the stored one: with checkModified alone both adds
\* index it again.
IndexedFileAtTolerance ==
  \E f \in FileNames :
    /\ HasDocument(store, FilePath(f))
    /\ Truthy(GetDocumentMtime(store, FilePath(f)))
    /\ Abs(fs[f].mtime - GetDocumentMtime(store, FilePath(f))) = ToleranceDir
    /\ FileNeeds(FilePath(f), [skipExisting |-> TRUE, update |-> FALSE, checkModified |-> TRUE])

---------------------------------------------------------------------------
(* A conversion that fails *)

ConvertsWell(f) == ~fs[f].broken /\ fs[f].convOk

\* C29: if the converter fails while an already indexed epub, pdf, srt or txt
\* file is being indexed again, the store is left unchanged: the record stored
\* for the path is still there and the same, no other record is touched, and
\* the add resolves without an error.
FailedConversionKeepsRecord ==
  [][\A c \in Slots :
       (/\ calls[c].pc = "conv"
        /\ calls'[c].pc # "conv"
        /\ ~ConvertsWell(calls[c].cur)
        /\ HasDocument(store, FilePath(calls[c].cur)))
         => /\ store' = store
            /\ Get(store', FilePath(calls[c].cur)) = Get(store, FilePath(calls[c].cur))
            /\ last'.outcome # "rejected"
            /\ calls[c].kind = "file" => last'.outcome = "resolved"]_vars

\* The conversion of a file that is indexed has just failed, the add of the
\* file has resolved and the record is in the store.
FailedConversionOfIndexedFile ==
  /\ last.warned # << >>
  /\ last.outcome = "resolved"
  /\ HasDocument(store, last.warned)

---------------------------------------------------------------------------
(* Snippet: navigation from a snippet, while documents come and go *)

MaxOpsNav == 2

(* The Markdown of a stored text, node by node. *)
DocNodes ==
  << <<Paragraph("aa")>>,
     <<Heading(1, "aa"), Heading(2, "bb"), Paragraph("aa")>>,
     <<Heading(1, "aa"), Heading(2, "aa"), Heading(2, "bb")>> >>

RECURSIVE VisitAll(_, _)
VisitAll(p, nodes) ==
  IF nodes = << >> THEN p ELSE VisitAll(Visit(p, Head(nodes)), Tail(nodes))

(* the sections_index column of a row *)
SectionsIndexOf(r) == VisitAll(EmptyParse, DocNodes[r.content]).sectionsIndex

Null == << >>

(* The object getHeadingById builds for a section: parent is the id of    *)
(* the parent when it resolves, children the ids of the children that     *)
(* resolve, content the blocks of the section.                            *)
HeadingDetails(index, id) ==
  LET section == SectionAt(index, id)
  IN [id |-> section.id, type |-> section.type, text |-> section.text, depth |-> section.depth,
      parent |-> IF section.parentId # NoId /\ Resolves(index, section.parentId[1])
                 THEN section.parentId ELSE NoId,
      children |-> SelectSeq(section.childrenIds, LAMBDA child : Resolves(index, child)),
      content |-> section.content]

(* getHeadingById(documentPath, headingId) on the table: null when there  *)
(* is no row for the path or no section with the id.                      *)
GetHeadingByIdOf(st, documentPath, headingId) ==
  LET rows == RowsAt(st, AbsolutePath(documentPath))
      index == SectionsIndexOf(CHOOSE r \in rows : TRUE)
  IN IF rows = {} THEN Null
     ELSE IF ~Resolves(index, headingId) THEN Null
     ELSE <<HeadingDetails(index, headingId)>>

(* ids.map(id => getHeadingById(documentPath, id)).filter(x => x !== null) *)
RECURSIVE LoadAll(_, _, _)
LoadAll(st, documentPath, ids) ==
  IF ids = << >> THEN << >>
  ELSE GetHeadingByIdOf(st, documentPath, Head(ids)) \o LoadAll(st, documentPath, Tail(ids))

EmptyCache == [parent |-> Null, children |-> Null, content |-> Null, details |-> Null]

(* new Snippet(data, searcher) for a section of a row *)
NewSnippet(r, id) ==
  LET section == SectionAt(SectionsIndexOf(r), id)
  IN [documentPath |-> r.path, sectionId |-> <<id>>, parentId |-> section.parentId,
      childrenIds |-> section.childrenIds, cache |-> EmptyCache]

(* What a method gives back: a value (null or one object), a list, or an  *)
(* exception; and the cache of the snippet after the call.                *)
Value(v, cache) == [kind |-> "value", value |-> v, cache |-> cache]
List(l, cache) == [kind |-> "list", value |-> l, cache |-> cache]
Throws(cache) == [kind |-> "throw", value |-> Null, cache |-> cache]

(* a mutant of GetParent: the cached parent is not looked at *)
GetParentUncached(st, sn) ==
  IF sn.parentId = NoId THEN Value(Null, sn.cache)
  ELSE LET loaded == GetHeadingByIdOf(st, sn.documentPath, sn.parentId[1])
       IN Value(loaded, [sn.cache EXCEPT !.parent = loaded])

GetParent(st, sn) ==
  IF sn.parentId = NoId THEN Value(Null, sn.cache)
  ELSE IF sn.cache.parent # Null THEN Value(sn.cache.parent, sn.cache)
  ELSE LET loaded == GetHeadingByIdOf(st, sn.documentPath, sn.parentId[1])
       IN Value(loaded, [sn.cache EXCEPT !.parent = loaded])

(* an empty array in the cache is a value of the cache *)
GetChildren(st, sn) ==
  IF sn.childrenIds = << >> THEN List(<< >>, sn.cache)
  ELSE IF sn.cache.children # Null THEN List(sn.cache.children[1], sn.cache)
  ELSE LET loaded == LoadAll(st, sn.documentPath, sn.childrenIds)
       IN List(loaded, [sn.cache EXCEPT !.children = <<loaded>>])

GetDetails(st, sn) ==
  IF sn.sectionId = NoId THEN Value(Null, sn.cache)
  ELSE IF sn.cache.details # Null THEN Value(sn.cache.details, sn.cache)
  ELSE LET loaded == GetHeadingByIdOf(st, sn.documentPath, sn.sectionId[1])
       IN Value(loaded, [sn.cache EXCEPT !.details = loaded])

(* details?.content || [] *)
GetContent(st, sn) ==
  IF sn.sectionId = NoId THEN List(<< >>, sn.cache)
  ELSE IF sn.cache.content # Null THEN List(sn.cache.content[1], sn.cache)
  ELSE LET details == GetDetails(st, sn)
           content == IF details.value = Null THEN << >> ELSE details.value[1].content
       IN List(content, [details.cache EXCEPT !.content = <<content>>])

(* the loop of getAncestorAtDepth *)
RECURSIVE Ascend(_, _, _, _)
Ascend(st, documentPath, current, depth) ==
  IF current = Null \/ current[1].depth <= depth \/ current[1].parent = NoId THEN current
  ELSE Ascend(st, documentPath, GetHeadingByIdOf(st, documentPath, current[1].parent[1]), depth)

GetAncestorAtDepth(st, sn, depth) ==
  LET details == GetDetails(st, sn)
      current == Ascend(st, sn.documentPath, details.value, depth)
  IN Value(IF current # Null /\ current[1].depth = depth THEN current ELSE Null, details.cache)

(* parent.children.filter(child => child.id !== this.sectionId) *)
GetSiblings(st, sn) ==
  LET parent == GetParent(st, sn)
  IN IF parent.value = Null \/ parent.value[1].children = << >> THEN List(<< >>, parent.cache)
     ELSE List(LoadAll(st, sn.documentPath,
                       SelectSeq(parent.value[1].children, LAMBDA child : <<child>> # sn.sectionId)),
               parent.cache)

(* getBreadcrumbs asks the table at every step and keeps nothing *)
GetBreadcrumbsOf(st, sn) ==
  LET rows == RowsAt(st, AbsolutePath(sn.documentPath))
  IN IF rows = {} THEN List(<< >>, sn.cache)
     ELSE List(GetBreadcrumbs(SectionsIndexOf(CHOOSE r \in rows : TRUE), sn.sectionId).crumbs,
               sn.cache)

Methods ==
  {"getParent", "getChildren", "getDetails", "getContent", "getAncestorAtDepth",
   "getSiblings", "getBreadcrumbs"}
DepthInputs == {1, 2}

Call(st, sn, method, depth) ==
  CASE method = "getParent" -> GetParent(st, sn)
    [] method = "getChildren" -> GetChildren(st, sn)
    [] method = "getDetails" -> GetDetails(st, sn)
    [] method = "getContent" -> GetContent(st, sn)
    [] method = "getAncestorAtDepth" -> GetAncestorAtDepth(st, sn, depth)
    [] method = "getSiblings" -> GetSiblings(st, sn)
    [] OTHER -> GetBreadcrumbsOf(st, sn)

HoldsSnippet == "op" \in DOMAIN last /\ last.op \in {"snippet", "navigate"}

(* A search hands out a snippet of a section of a stored document. *)
TakeSnippet(r, id) ==
  /\ r \in DOMAIN store
  /\ Resolves(SectionsIndexOf(r), id)
  /\ last' = [op |-> "snippet", snippet |-> NewSnippet(r, id)]
  /\ UNCHANGED <<store, fs, calls, nextUuid, envLeft, opsLeft, faultsLeft>>

(* A method of the snippet is called; before is the cache it found. *)
Navigate(method, depth) ==
  /\ HoldsSnippet
  /\ method = "getAncestorAtDepth" \/ depth = 1
  /\ LET out == Call(store, last.snippet, method, depth)
     IN last' = [op |-> "navigate", snippet |-> [last.snippet EXCEPT !.cache = out.cache],
                 method |-> method, depth |-> depth, before |-> last.snippet.cache,
                 kind |-> out.kind, value |-> out.value]
  /\ UNCHANGED <<store, fs, calls, nextUuid, envLeft, opsLeft, faultsLeft>>

(* removeDocument, removeByTag and clear while a snippet is held *)
Removal(after) ==
  /\ HoldsSnippet
  /\ after # store
  /\ store' = after
  /\ last' = [op |-> "snippet", snippet |-> last.snippet]
  /\ UNCHANGED <<fs, calls, nextUuid, envLeft, opsLeft, faultsLeft>>

RemoveDocumentHeld(inp) == Removal(DeletePath(store, AbsolutePath(inp)))
RemoveByTagHeld(tag) == Removal(DeleteLike(store, TagPattern(tag)))
ClearHeld == Removal(EmptyBag)

(* getHeadingById called with a path and an id of the caller's *)
HeadingIdInputs == 0..3
LookUp(documentPath, headingId) ==
  /\ last' = [op |-> "heading", documentPath |-> documentPath, headingId |-> headingId,
              value |-> GetHeadingByIdOf(store, documentPath, headingId)]
  /\ UNCHANGED <<store, fs, calls, nextUuid, envLeft, opsLeft, faultsLeft>>

BufferPaths == {VirtualPath(Uuids[i]) : i \in 1..(MaxBuffers + 1)}

InitNav == InitWith(MaxOpsNav, 0)

NextNav ==
  \/ \E content \in BufferContents, tags \in AddTagOptions : AddBuffer(content, tags, TRUE)
  \/ \E r \in DOMAIN store, id \in HeadingIdInputs : TakeSnippet(r, id)
  \/ \E method \in Methods, depth \in DepthInputs : Navigate(method, depth)
  \/ \E inp \in BufferPaths : RemoveDocumentHeld(inp)
  \/ \E tag \in RemoveTags : RemoveByTagHeld(tag)
  \/ ClearHeld
  \/ \E documentPath \in BufferPaths, headingId \in HeadingIdInputs : LookUp(documentPath, headingId)

(* Buffers are added, snippets of them are navigated, documents are removed. *)
SpecNav == InitNav /\ [][NextNav]_vars

IsNavigate == "op" \in DOMAIN last /\ last.op = "navigate"
DocumentGone == ~HasDocument(store, last.snippet.documentPath)

====
